---- MODULE Spec2Model ----
(***************************************************************************)
(* Godash fleet-control core: the instance registry (InstanceStore), its   *)
(* disk persistence (save / load) and the audit log (AuditStore).          *)
(*                                                                         *)
(* Spec      the registry as the running program: request handlers calling *)
(*           Get / List / Create / Update / Delete / UpdateStatus on one   *)
(*           InstanceStore guarded by s.mu, plus clock and process restart.*)
(* FairSpec  Spec with the Go scheduler's fairness: a runnable goroutine   *)
(*           eventually runs.                                              *)
(* SaveSpec  InstanceStore.save and load taken alone: one call of save()   *)
(*           entered with s.mu free, with I/O failures and crashes.        *)
(* AuditSpec the audit log: Log / GetRecentEntries / Clear.                *)
(***************************************************************************)
EXTENDS Integers, Sequences, FiniteSets, TLC

\* ------------------------------------------------------------------ bounds
\* wall-clock readings are 1..MaxTime
MaxTime == 2
\* descriptors in the registry file found at process start
MaxInit == 1
\* calls of AuditStore.Log in one run of the audit log
MaxAppends == 5
\* snapshot files in the metrics directory
MaxFiles == 2
\* lines of an exposition text
MaxLines == 2
\* entries logged before the audit log is filtered
MaxLogged == 3

\* ------------------------------------------------------------- value sets
\* request-handler goroutines
Procs == {"h1", "h2"}
Times == 1..MaxTime
\* time.Time{} (LastPing of a descriptor never pinged)
ZeroTime == 0

StatusOnline == "online"
StatusOffline == "offline"
StatusUnknown == "unknown"
StatusUpdating == "updating"
InstanceStatus == {StatusOnline, StatusOffline, StatusUnknown, StatusUpdating}

\* fmt.Sprintf("inst_%d", time.Now().UnixNano())
generateID(t) == <<"inst", t>>
Ids == {generateID(t) : t \in 0..MaxTime}

\* InstanceRequest values the handlers pass: Name, URL, APIKeyFile, Tags
Req(name, url, key, tags) == [Name |-> name, URL |-> url, APIKeyFile |-> key, Tags |-> tags]
InstanceRequest ==
  {Req("edge-1", "http://10.0.0.5:2019", "", <<>>),
   Req("edge-2", "http://10.0.0.6:2019", "/keys/edge-2", <<"prod">>)}
NoReq == Req("", "", "", <<>>)
\* requests with a required field missing: no name, no URL
InvalidRequests ==
  {Req("", "http://10.0.0.5:2019", "", <<>>), Req("edge-1", "", "", <<>>)}

\* CaddyInstance built by Create
NewInstance(id, req, t) ==
  [ID |-> id, Name |-> req.Name, URL |-> req.URL, APIKeyFile |-> req.APIKeyFile,
   Status |-> StatusUnknown, Tags |-> req.Tags, LastPing |-> ZeroTime,
   CreatedAt |-> t, UpdatedAt |-> t]

\* ------------------------------------------------------------------ files
filePath == "instances.json"
\* save writing the document straight to s.filePath
tmpPath_InPlace == filePath
tmpPath == filePath \o ".tmp"

\* a file: absent, or bytes holding the JSON objects `doc`; `complete` is
\* false when the bytes stop before the end of the document
NoFile == [exists |-> FALSE, doc |-> <<>>, complete |-> FALSE]
FileOf(doc) == [exists |-> TRUE, doc |-> doc, complete |-> TRUE]
Truncated(doc, k) == [exists |-> TRUE, doc |-> SubSeq(doc, 1, k), complete |-> FALSE]

\* json encoding of one CaddyInstance: "tags" carries omitempty; so does
\* "last_ping", to no effect on a time.Time, which is always written
MarshalInstance(inst) ==
  LET base == [k \in {"id", "name", "url", "api_key_file", "status", "last_ping",
                      "created_at", "updated_at"} |->
                 CASE k = "id" -> inst.ID
                   [] k = "name" -> inst.Name
                   [] k = "url" -> inst.URL
                   [] k = "api_key_file" -> inst.APIKeyFile
                   [] k = "status" -> inst.Status
                   [] k = "last_ping" -> inst.LastPing
                   [] k = "created_at" -> inst.CreatedAt
                   [] k = "updated_at" -> inst.UpdatedAt]
  IN IF Len(inst.Tags) = 0 THEN base
     ELSE [k \in DOMAIN base \cup {"tags"} |-> IF k = "tags" THEN inst.Tags ELSE base[k]]

\* json decoding of one object into a CaddyInstance (absent key: zero value)
UnmarshalInstance(obj) ==
  [ID |-> obj["id"], Name |-> obj["name"], URL |-> obj["url"],
   APIKeyFile |-> obj["api_key_file"], Status |-> obj["status"],
   Tags |-> IF "tags" \in DOMAIN obj THEN obj["tags"] ELSE <<>>,
   LastPing |-> obj["last_ping"], CreatedAt |-> obj["created_at"],
   UpdatedAt |-> obj["updated_at"]]

\* the orders in which a Go map of these keys can be ranged over
Orders(S) == {o \in [1..Cardinality(S) -> S] : \A i, j \in DOMAIN o : o[i] = o[j] => i = j}

\* json.MarshalIndent of the slice built by ranging over s.instances in order o
MarshalIndent(insts, o) == [i \in DOMAIN o |-> MarshalInstance(insts[o[i]])]

\* the map load() builds from a parsed document: s.instances[inst.ID] = inst
RECURSIVE MapOf(_)
MapOf(doc) ==
  IF Len(doc) = 0 THEN <<>>
  ELSE LET rest == MapOf(SubSeq(doc, 1, Len(doc) - 1))
           inst == UnmarshalInstance(doc[Len(doc)])
       IN [i \in DOMAIN rest \cup {inst.ID} |-> IF i = inst.ID THEN inst ELSE rest[i]]

\* load(): ReadFile error (missing), Unmarshal error (truncated bytes), or the map
load(file) ==
  IF ~file.exists THEN [err |-> "not_exist", instances |-> <<>>]
  ELSE IF ~file.complete THEN [err |-> "parse", instances |-> <<>>]
  ELSE [err |-> "nil", instances |-> MapOf(file.doc)]

\* NewInstanceStore that starts with an empty store whatever load returns
NewInstanceStore_AnyError(file) ==
  [store |-> "up", instances |-> load(file).instances]

\* NewInstanceStore: a missing file is an empty store, any other error is fatal
NewInstanceStore(file) ==
  LET r == load(file)
  IN [store |-> IF r.err \in {"nil", "not_exist"} THEN "up" ELSE "failed",
      instances |-> r.instances]

\* ------------------------------------------------------------------ state
VARIABLES
  instances,  \* s.instances: id -> CaddyInstance
  store,      \* "up", or "failed" when NewInstanceStore returned an error
  fs,         \* the files filePath and tmpPath
  mu,         \* s.mu: the goroutine holding Lock, the goroutines holding RLock
  pc,         \* where each handler goroutine stands
  op,         \* its call frame: operation, arguments, the id Create generated
  ret,        \* what its last call returned
  buf,        \* save's local `data`
  now,        \* the wall clock time.Now() reads
  logFile,    \* the audit log file: its lines
  maxEntries, \* AuditStore.maxEntries
  appended,   \* history: the entries Log has appended since the log was empty
  got,        \* what the last call on the audit store returned
  metricsDir, \* the metrics directory: <<instance id, file name>> -> file
  bg,         \* ids whose refresh, spawned by RefreshAllStatuses, has not started
  metricsText,\* the exposition text handed to ParsePrometheusMetrics
  parsed      \* what ParsePrometheusMetrics returned for it, {} before the call

aud == <<logFile, maxEntries, appended, got>>
met == <<metricsDir, bg>>
prs == <<metricsText, parsed>>

\* the operations that change s.instances and call save
Mutations == {"create", "update", "delete", "set_status"}

\* a call in progress, and what a call returned
Frame(kind, id, req, status) == [kind |-> kind, id |-> id, req |-> req, status |-> status]
NoCall == Frame("none", generateID(0), NoReq, StatusUnknown)
Return(kind, id, err, val) == [kind |-> kind, id |-> id, err |-> err, val |-> val]
NoRet == Return("none", generateID(0), "nil", {})

\* sync.RWMutex: Lock is granted when nobody holds the mutex, RLock when no
\* goroutine holds Lock; neither is reentrant
NoLock == [writer |-> "none", readers |-> {}]
LockFree == mu.writer = "none" /\ mu.readers = {}
RLockFree == mu.writer = "none"

Put(m, id, inst) == [i \in DOMAIN m \cup {id} |-> IF i = id THEN inst ELSE m[i]]
Remove(m, id) == [i \in DOMAIN m \ {id} |-> m[i]]
Values(m) == {m[i] : i \in DOMAIN m}

\* the registry files a process can find at start: none, a document of at
\* most MaxInit descriptors, or bytes that do not parse
SeedInstances == {NewInstance(i, r, 1) : i \in Ids, r \in InstanceRequest}
SeedMaps ==
  UNION {{m \in [S -> SeedInstances] : \A i \in S : m[i].ID = i} :
           S \in {T \in SUBSET Ids : Cardinality(T) <= MaxInit}}
SeedDocs ==
  UNION {{MarshalIndent(m, o) : o \in Orders(DOMAIN m)} :
           m \in {x \in SeedMaps : \A i \in DOMAIN x : x[i].Name = "edge-2"}}
SeedFiles == {NoFile} \cup {FileOf(d) : d \in SeedDocs} \cup {Truncated(d, 0) : d \in SeedDocs}

Files(main, tmp) == [f \in {filePath, tmpPath} |-> IF f = filePath THEN main ELSE tmp]

\* ------------------------------------------------------ audit log: data
ActionCreateInstance == "create_instance"
\* the AuditEntry a caller hands to Log; Details tells the entries apart
AuditUsers == {1}
CallerEntry(user, details) ==
  [ID |-> <<0, 0>>, Timestamp |-> ZeroTime, UserID |-> user, InstanceID |-> "",
   Action |-> ActionCreateInstance, Details |-> details]
\* the users and instances of the entries that are filtered: user 0 is the
\* zero value of UserID, the last two are surrogate code points
FilterUsers == {0, 1, 2, 55296, 56320}
FilterInstances == {"", "inst_1", "inst_2"}
\* string(rune(n)): the character with code point n, U+FFFD when n is no
\* valid code point (negative, a surrogate, above U+10FFFF)
Rune(n) ==
  <<"rune", IF n < 0 \/ (n >= 55296 /\ n <= 57343) \/ n > 1114111 THEN 65533 ELSE n>>

\* randomString: every character is letters[time.Now().UnixNano() % len(letters)]
randomString(t) == t % 62
\* generateAuditID: the clock to the second, "-", randomString(8)
generateAuditID(t) == <<t, randomString(t)>>

\* json.Marshal of an AuditEntry: instance_id and details carry omitempty
MarshalEntry(e) ==
  LET keys == {"id", "timestamp", "user_id", "action"}
                \cup (IF e.InstanceID = "" THEN {} ELSE {"instance_id"})
                \cup (IF e.Details = 0 THEN {} ELSE {"details"})
  IN [k \in keys |->
        CASE k = "id" -> e.ID
          [] k = "timestamp" -> e.Timestamp
          [] k = "user_id" -> e.UserID
          [] k = "action" -> e.Action
          [] k = "instance_id" -> e.InstanceID
          [] k = "details" -> e.Details]

\* json.Unmarshal of one line into an AuditEntry (absent key: zero value)
UnmarshalEntry(obj) ==
  [ID |-> obj["id"], Timestamp |-> obj["timestamp"], UserID |-> obj["user_id"],
   InstanceID |-> IF "instance_id" \in DOMAIN obj THEN obj["instance_id"] ELSE "",
   Action |-> obj["action"],
   Details |-> IF "details" \in DOMAIN obj THEN obj["details"] ELSE 0]

\* the log file: absent, or its lines; a line holds the JSON of one entry,
\* `whole` is false when its bytes are not one JSON object, and `nl` is false
\* when the file ends before the line's newline
NoLog == [exists |-> FALSE, lines |-> <<>>]
Line(e) == [json |-> MarshalEntry(e), whole |-> TRUE, nl |-> TRUE]
\* what a WriteString cut short leaves: part of the JSON, or all of it
\* without the newline
PartLine(e, all) == [json |-> MarshalEntry(e), whole |-> all, nl |-> FALSE]
\* O_APPEND: the bytes of l go after the last byte of the file, so after an
\* unterminated last line they continue that line, which then is not one
\* JSON object
AppendBytes(ls, l) ==
  IF Len(ls) > 0 /\ ~ls[Len(ls)].nl
  THEN [ls EXCEPT ![Len(ls)] = [json |-> l.json, whole |-> FALSE, nl |-> l.nl]]
  ELSE Append(ls, l)
WriteLines(es) == [exists |-> TRUE, lines |-> [i \in DOMAIN es |-> Line(es[i])]]

\* splitLines: the lines of the file, in file order
splitLines(file) == file.lines

Reverse(q) == [i \in 1..Len(q) |-> q[Len(q) + 1 - i]]

RECURSIVE ParseLines(_)
ParseLines(ls) ==
  IF Len(ls) = 0 THEN <<>>
  ELSE LET front == ParseLines(SubSeq(ls, 1, Len(ls) - 1))
           l == ls[Len(ls)]
       IN IF l.whole THEN Append(front, UnmarshalEntry(l.json)) ELSE front

\* readEntries without the final reversal
readEntries_FileOrder(file) ==
  IF ~file.exists THEN <<>> ELSE ParseLines(splitLines(file))

\* readEntries: a missing file is no entries; lines that do not parse are
\* skipped; the parsed entries are reversed (newest first)
readEntries(file) ==
  IF ~file.exists THEN <<>> ELSE Reverse(ParseLines(splitLines(file)))

\* rotateIfNeeded that keeps one entry too many
rotateIfNeeded_OffByOne(file, max) ==
  LET entries == readEntries(file)
  IN IF Len(entries) <= max + 1 THEN file
     ELSE WriteLines(SubSeq(entries, Len(entries) - max, Len(entries)))

\* rotateIfNeeded: with more than max entries, os.Create the file again and
\* write kept := entries[len(entries)-max:] of the entries as readEntries gave them
rotateIfNeeded(file, max) ==
  LET entries == readEntries(file)
  IN IF Len(entries) <= max THEN file
     ELSE WriteLines(SubSeq(entries, Len(entries) - max + 1, Len(entries)))

\* matchesFilters: every filter key has to agree
matchesFilters(entry, filters) ==
  \A key \in DOMAIN filters :
    CASE key = "instance_id" -> entry.InstanceID = filters[key]
      [] key = "user_id" -> ~(entry.UserID # 0 /\ Rune(entry.UserID) # filters[key])
      [] key = "action" -> entry.Action = filters[key]
      [] key = "success" -> FALSE
      [] OTHER -> TRUE

\* the loop of GetEntries from entry i on: append a matching entry, then
\* break once len(filtered) >= limit
RECURSIVE FilterFrom(_, _, _, _, _)
FilterFrom(entries, i, filters, limit, filtered) ==
  IF i > Len(entries) THEN filtered
  ELSE LET f == IF matchesFilters(entries[i], filters)
                THEN Append(filtered, entries[i]) ELSE filtered
       IN IF Len(f) >= limit THEN f ELSE FilterFrom(entries, i + 1, filters, limit, f)

\* GetEntries(filters, limit) on the file
GetEntries(file, filters, limit) == FilterFrom(readEntries(file), 1, filters, limit, <<>>)

Result(kind, limit, err, entries) == [kind |-> kind, limit |-> limit, err |-> err, entries |-> entries]
NoGot == Result("none", 0, "nil", <<>>)
\* what GetEntriesForUser / GetEntriesForInstance returned for their argument
Filtered(kind, arg, limit, entries) ==
  [kind |-> kind, arg |-> arg, limit |-> limit, err |-> "nil", entries |-> entries]

\* the audit store while only the registry is looked at
AuditUnused == logFile = NoLog /\ maxEntries = 1 /\ appended = <<>> /\ got = NoGot
\* an empty metrics directory and no refresh spawned
MetricsUnused == metricsDir = <<>> /\ bg = {}
\* no exposition text at hand
ParserUnused == metricsText = <<>> /\ parsed = {}
\* the registry while only the audit store is looked at
RegistryUnused ==
  /\ instances = <<>> /\ store = "up" /\ fs = Files(NoFile, NoFile) /\ mu = NoLock
  /\ pc = [p \in Procs |-> "idle"] /\ op = [p \in Procs |-> NoCall]
  /\ ret = [p \in Procs |-> NoRet] /\ buf = [p \in Procs |-> <<>>]

\* ------------------------------------------------------ registry: Init
\* process start: NewInstanceStore on the file found, handlers idle
Init ==
  /\ \E f \in SeedFiles :
       /\ fs = Files(f, NoFile)
       /\ instances = NewInstanceStore(f).instances
       /\ store = NewInstanceStore(f).store
  /\ mu = NoLock
  /\ pc = [p \in Procs |-> "idle"]
  /\ op = [p \in Procs |-> NoCall]
  /\ ret = [p \in Procs |-> NoRet]
  /\ buf = [p \in Procs |-> <<>>]
  /\ now \in Times
  /\ AuditUnused
  /\ MetricsUnused
  /\ ParserUnused

\* ------------------------------------------------------ registry: reads
\* InstanceStore.Get: RLock, look up, RUnlock
Get(p, id) ==
  /\ store = "up" /\ pc[p] = "idle" /\ RLockFree
  /\ ret' = [ret EXCEPT ![p] =
              IF id \in DOMAIN instances
              THEN Return("get", id, "nil", {instances[id]})
              ELSE Return("get", id, "not_found", {})]
  /\ UNCHANGED <<instances, store, fs, mu, pc, op, buf, now, aud, prs, met>>

\* InstanceStore.List: RLock, copy the values, RUnlock
List(p) ==
  /\ store = "up" /\ pc[p] = "idle" /\ RLockFree
  /\ ret' = [ret EXCEPT ![p] = Return("list", generateID(0), "nil", Values(instances))]
  /\ UNCHANGED <<instances, store, fs, mu, pc, op, buf, now, aud, prs, met>>

\* ------------------------------------------------------ registry: mutations
\* A mutation takes s.mu.Lock(), changes the map and calls s.save(); save
\* starts with s.mu.RLock(), so the handler then stands at "save" holding Lock.
EnterSave(p, frame, insts) ==
  /\ instances' = insts
  /\ mu' = [mu EXCEPT !.writer = p]
  /\ pc' = [pc EXCEPT ![p] = "save"]
  /\ op' = [op EXCEPT ![p] = frame]
  /\ ret' = [ret EXCEPT ![p] = NoRet]

\* return of a call that found no such id: deferred Unlock, nothing changed
ReturnNotFound(p, kind, id) ==
  /\ ret' = [ret EXCEPT ![p] = Return(kind, id, "not_found", {})]
  /\ UNCHANGED <<instances, mu, pc, op>>

\* InstanceStore.Create up to its call of save
Create(p, req) ==
  /\ store = "up" /\ pc[p] = "idle" /\ LockFree
  /\ LET id == generateID(now)
     IN EnterSave(p, Frame("create", id, req, StatusUnknown),
                  Put(instances, id, NewInstance(id, req, now)))
  /\ UNCHANGED <<store, fs, buf, now, aud, prs, met>>

\* InstanceStore.Update up to its call of save
Update(p, id, req) ==
  /\ store = "up" /\ pc[p] = "idle" /\ LockFree
  /\ IF id \notin DOMAIN instances
     THEN ReturnNotFound(p, "update", id)
     ELSE EnterSave(p, Frame("update", id, req, StatusUnknown),
                    [instances EXCEPT ![id].Name = req.Name, ![id].URL = req.URL,
                                      ![id].APIKeyFile = req.APIKeyFile,
                                      ![id].Tags = req.Tags, ![id].UpdatedAt = now])
  /\ UNCHANGED <<store, fs, buf, now, aud, prs, met>>

\* Delete without its `if _, ok := s.instances[id]; !ok` check
Delete_Unchecked(p, id) ==
  /\ store = "up" /\ pc[p] = "idle" /\ LockFree
  /\ EnterSave(p, Frame("delete", id, NoReq, StatusUnknown), Remove(instances, id))
  /\ UNCHANGED <<store, fs, buf, now, aud, prs, met>>

\* InstanceStore.Delete up to its call of save
Delete(p, id) ==
  /\ store = "up" /\ pc[p] = "idle" /\ LockFree
  /\ IF id \notin DOMAIN instances
     THEN ReturnNotFound(p, "delete", id)
     ELSE EnterSave(p, Frame("delete", id, NoReq, StatusUnknown), Remove(instances, id))
  /\ UNCHANGED <<store, fs, buf, now, aud, prs, met>>

\* InstanceStore.UpdateStatus up to its call of save
UpdateStatus(p, id, status) ==
  /\ store = "up" /\ pc[p] = "idle" /\ LockFree
  /\ IF id \notin DOMAIN instances
     THEN ReturnNotFound(p, "set_status", id)
     ELSE EnterSave(p, Frame("set_status", id, NoReq, status),
                    [instances EXCEPT ![id].Status = status, ![id].LastPing = now,
                                      ![id].UpdatedAt = now])
  /\ UNCHANGED <<store, fs, buf, now, aud, prs, met>>

\* ------------------------------------------------------ clock, restart
\* the wall clock advances, or is stepped back (time.Now().UnixNano() is wall time)
Tick ==
  /\ now < MaxTime /\ now' = now + 1
  /\ UNCHANGED <<instances, store, fs, mu, pc, op, ret, buf, aud, prs, met>>
ClockSetBack ==
  /\ \E t \in Times : t < now /\ now' = t
  /\ UNCHANGED <<instances, store, fs, mu, pc, op, ret, buf, aud, prs, met>>

\* the process dies (every goroutine and lock with it) and is started again:
\* NewInstanceStore on the file as it stands
Restart ==
  /\ instances' = NewInstanceStore(fs[filePath]).instances
  /\ store' = NewInstanceStore(fs[filePath]).store
  /\ mu' = NoLock
  /\ pc' = [p \in Procs |-> "idle"]
  /\ op' = [p \in Procs |-> NoCall]
  /\ ret' = [p \in Procs |-> NoRet]
  /\ buf' = [p \in Procs |-> <<>>]
  /\ bg' = {}
  /\ UNCHANGED <<fs, now, aud, prs, metricsDir>>

\* ------------------------------------------------------ save, step by step
\* os.Rename: the target is replaced in one step; renaming a file to itself
\* changes nothing
Rename(f, from, to) ==
  IF from = to THEN f ELSE [f EXCEPT ![to] = f[from], ![from] = NoFile]

\* save returns err to its caller: deferred RUnlock
SaveReturn(p, err) ==
  /\ mu' = [mu EXCEPT !.readers = @ \ {p}]
  /\ pc' = [pc EXCEPT ![p] = "idle"]
  /\ ret' = [ret EXCEPT ![p] = Return("save", generateID(0), err, {})]

\* save: s.mu.RLock(), then range over s.instances and json.MarshalIndent
SaveRLock(p) ==
  /\ pc[p] = "save" /\ RLockFree
  /\ mu' = [mu EXCEPT !.readers = @ \cup {p}]
  /\ \E o \in Orders(DOMAIN instances) : buf' = [buf EXCEPT ![p] = MarshalIndent(instances, o)]
  /\ pc' = [pc EXCEPT ![p] = "open_tmp"]
  /\ UNCHANGED <<instances, store, fs, op, ret, now, aud, prs, met>>

\* os.WriteFile(tmpPath, ...): open with O_CREATE|O_TRUNC, or fail to
SaveOpenTmp(p) ==
  /\ pc[p] = "open_tmp"
  /\ \/ /\ fs' = [fs EXCEPT ![tmpPath] = Truncated(buf[p], 0)]
        /\ pc' = [pc EXCEPT ![p] = "write_tmp"]
        /\ UNCHANGED <<mu, ret>>
     \/ SaveReturn(p, "write") /\ UNCHANGED fs
  /\ UNCHANGED <<instances, store, op, buf, now, aud, prs, met>>

\* os.WriteFile: part of the bytes has reached the file
SaveWritePart(p) ==
  /\ pc[p] = "write_tmp"
  /\ \E k \in 1..Len(buf[p]) :
       /\ k > Len(fs[tmpPath].doc)
       /\ fs' = [fs EXCEPT ![tmpPath] = Truncated(buf[p], k)]
  /\ UNCHANGED <<instances, store, mu, pc, op, ret, buf, now, aud, prs, met>>

\* os.WriteFile: all bytes written and the file closed, or the write failed
SaveWriteTmp(p) ==
  /\ pc[p] = "write_tmp"
  /\ \/ /\ fs' = [fs EXCEPT ![tmpPath] = FileOf(buf[p])]
        /\ pc' = [pc EXCEPT ![p] = "rename"]
        /\ UNCHANGED <<mu, ret>>
     \/ SaveReturn(p, "write") /\ UNCHANGED fs
  /\ UNCHANGED <<instances, store, op, buf, now, aud, prs, met>>

\* os.Rename(tmpPath, s.filePath), or its failure; then save returns
SaveRename(p) ==
  /\ pc[p] = "rename"
  /\ \/ fs' = Rename(fs, tmpPath, filePath) /\ SaveReturn(p, "nil")
     \/ SaveReturn(p, "rename") /\ UNCHANGED fs
  /\ UNCHANGED <<instances, store, op, buf, now, aud, prs, met>>

\* save() entered with s.mu free, on any registry content and any file
SaveInit ==
  /\ instances \in SeedMaps
  /\ store = "up"
  /\ \E f \in {x \in SeedFiles : NewInstanceStore(x).store = "up"} : fs = Files(f, NoFile)
  /\ mu = NoLock
  /\ pc = [p \in Procs |-> IF p = "h1" THEN "save" ELSE "idle"]
  /\ op = [p \in Procs |-> NoCall]
  /\ ret = [p \in Procs |-> NoRet]
  /\ buf = [p \in Procs |-> <<>>]
  /\ now \in Times
  /\ AuditUnused
  /\ MetricsUnused
  /\ ParserUnused

reg == <<instances, store, fs, mu, pc, op, ret, buf>>
vars == <<instances, store, fs, mu, pc, op, ret, buf, now, logFile, maxEntries, appended, got,
          metricsDir, bg, metricsText, parsed>>

\* ------------------------------------------------------ audit log: actions
\* NewAuditStore(logDir, maxEntries) on a directory without a log file
AuditInit ==
  /\ logFile = NoLog
  /\ maxEntries \in 1..MaxAppends
  /\ appended = <<>>
  /\ got = NoGot
  /\ now \in Times
  /\ RegistryUnused
  /\ MetricsUnused
  /\ ParserUnused

\* AuditStore.Log: under s.mu, set ID and Timestamp, append one line to the
\* file (creating it), then rotateIfNeeded. Or OpenFile fails and Log returns;
\* or the line is written and rotateIfNeeded returns the error of its
\* ReadFile or os.Create, leaving the file as appended to.
LogEntry(caller) ==
  /\ LET entry == [caller EXCEPT !.ID = generateAuditID(now), !.Timestamp = now]
         written == [exists |-> TRUE, lines |-> AppendBytes(logFile.lines, Line(entry))]
     IN \/ /\ logFile' = rotateIfNeeded(written, maxEntries)
           /\ appended' = Append(appended, entry)
           /\ got' = Result("log", 0, "nil", <<>>)
        \/ /\ got' = Result("log", 0, "open", <<>>)
           /\ UNCHANGED <<logFile, appended>>
        \/ /\ logFile' = written
           /\ appended' = Append(appended, entry)
           /\ got' = Result("log", 0, "rotate", <<>>)
  /\ UNCHANGED <<reg, met, prs, now, maxEntries>>

\* Log of an entry of user for no instance
Log(user) ==
  /\ Len(appended) < MaxAppends
  /\ LogEntry(CallerEntry(user, Len(appended) + 1))

\* Log of an entry of user about instance inst
LogAbout(user, inst) ==
  /\ Len(appended) < MaxLogged
  /\ LogEntry([CallerEntry(user, Len(appended) + 1) EXCEPT !.InstanceID = inst])

\* AuditStore.GetEntriesForUser(userID, limit)
GetEntriesForUser(userID, limit) ==
  /\ got' = Filtered("for_user", userID, limit,
                     GetEntries(logFile, [k \in {"user_id"} |-> Rune(userID)], limit))
  /\ UNCHANGED <<reg, met, prs, now, logFile, maxEntries, appended>>

\* AuditStore.GetEntriesForInstance(instanceID, limit)
GetEntriesForInstance(instanceID, limit) ==
  /\ got' = Filtered("for_instance", instanceID, limit,
                     GetEntries(logFile, [k \in {"instance_id"} |-> instanceID], limit))
  /\ UNCHANGED <<reg, met, prs, now, logFile, maxEntries, appended>>

\* AuditStore.GetRecentEntries(limit): GetEntries(nil, limit) under s.mu
GetRecentEntries(limit) ==
  /\ got' = Result("recent", limit, "nil", GetEntries(logFile, <<>>, limit))
  /\ UNCHANGED <<reg, met, prs, now, logFile, maxEntries, appended>>

\* AuditStore.Clear: os.WriteFile(s.logFile, []byte{}, 0644) under s.mu
Clear ==
  /\ logFile' = WriteLines(<<>>)
  /\ appended' = <<>>
  /\ got' = Result("clear", 0, "nil", <<>>)
  /\ UNCHANGED <<reg, met, prs, now, maxEntries>>

\* the process dies inside Log and is started again (NewAuditStore on the
\* same directory): WriteString had written part of the line, or the line
\* was written and rotateIfNeeded had created the file anew and rewritten
\* part of the kept entries
LogCrash(user) ==
  /\ Len(appended) < MaxAppends
  /\ LET entry == [CallerEntry(user, Len(appended) + 1) EXCEPT
                     !.ID = generateAuditID(now), !.Timestamp = now]
         written == [exists |-> TRUE, lines |-> AppendBytes(logFile.lines, Line(entry))]
         kept == rotateIfNeeded(written, maxEntries).lines
     IN \/ \E all \in BOOLEAN :
             logFile' = [exists |-> TRUE,
                         lines |-> AppendBytes(logFile.lines, PartLine(entry, all))]
        \/ /\ rotateIfNeeded(written, maxEntries) # written
           /\ \E k \in 0..(Len(kept) - 1) :
                logFile' = [exists |-> TRUE, lines |-> SubSeq(kept, 1, k)]
  /\ got' = NoGot
  /\ UNCHANGED <<reg, met, prs, now, maxEntries, appended>>

AuditNext ==
  \/ \E u \in AuditUsers : Log(u)
  \/ \E l \in 0..MaxAppends : GetRecentEntries(l)
  \/ Clear
  \/ Tick

AuditSpec == AuditInit /\ [][AuditNext]_vars

\* the audit log with crashes inside Log
AuditCrashNext ==
  \/ AuditNext
  \/ \E u \in AuditUsers : LogCrash(u)

AuditCrashSpec == AuditInit /\ [][AuditCrashNext]_vars

\* the audit log of several users and instances, read through its filters
AuditFilterInit ==
  /\ logFile = NoLog
  /\ maxEntries = MaxAppends
  /\ appended = <<>>
  /\ got = NoGot
  /\ now = 1
  /\ RegistryUnused
  /\ MetricsUnused
  /\ ParserUnused

AuditFilterNext ==
  \/ \E u \in FilterUsers, i \in FilterInstances : LogAbout(u, i)
  \/ \E u \in FilterUsers : GetEntriesForUser(u, MaxAppends)
  \/ \E i \in FilterInstances \ {""} : GetEntriesForInstance(i, MaxAppends)

AuditFilterSpec == AuditFilterInit /\ [][AuditFilterNext]_vars

\* ------------------------------------------------------ specifications
Next ==
  \/ \E p \in Procs, i \in Ids : Get(p, i)
  \/ \E p \in Procs : List(p)
  \/ \E p \in Procs, r \in InstanceRequest : Create(p, r)
  \/ \E p \in Procs, i \in Ids, r \in InstanceRequest : Update(p, i, r)
  \/ \E p \in Procs, i \in Ids : Delete(p, i)
  \/ \E p \in Procs, i \in Ids, st \in InstanceStatus : UpdateStatus(p, i, st)
  \/ Tick
  \/ ClockSetBack
  \/ Restart

Spec == Init /\ [][Next]_vars

\* a goroutine waiting in save for s.mu.RLock() runs as soon as it is granted
FairSpec == Spec /\ \A p \in Procs : WF_vars(SaveRLock(p))

\* the registry as the create handlers use it: json.Unmarshal of the request
\* body, then Create, whatever the body left empty
CreateNext ==
  \/ \E p \in Procs, r \in InstanceRequest \cup InvalidRequests : Create(p, r)
  \/ \E p \in Procs : List(p)
  \/ Tick
  \/ Restart

CreateSpec == Init /\ [][CreateNext]_vars

\* ------------------------------------------------------ descriptors by pointer
\* Get and List return the *CaddyInstance that s.instances holds, no copy: the
\* caller reads its fields later, without s.mu. TestConnection taken in the
\* steps that read them: store.Get, then instance.GetAPIKey (APIKeyFile), then
\* NewClient(instance.URL, ...)
HoldInstance(p, id) ==
  /\ store = "up" /\ pc[p] = "idle" /\ RLockFree
  /\ id \in DOMAIN instances
  /\ pc' = [pc EXCEPT ![p] = "get_api_key"]
  /\ op' = [op EXCEPT ![p] = Frame("test_connection", id, NoReq, StatusUnknown)]
  /\ buf' = [buf EXCEPT ![p] = <<instances[id]>>]
  /\ UNCHANGED <<instances, store, fs, mu, ret, now, aud, prs, met>>
GetAPIKey(p) ==
  /\ pc[p] = "get_api_key"
  /\ buf' = [buf EXCEPT ![p] = Append(@, instances[op[p].id].APIKeyFile)]
  /\ pc' = [pc EXCEPT ![p] = "new_client"]
  /\ UNCHANGED <<instances, store, fs, mu, op, ret, now, aud, prs, met>>
NewClient(p) ==
  /\ pc[p] = "new_client"
  /\ ret' = [ret EXCEPT ![p] =
              Return("new_client", op[p].id, "nil",
                     {[got |-> buf[p][1], APIKeyFile |-> buf[p][2],
                       baseURL |-> instances[op[p].id].URL]})]
  /\ pc' = [pc EXCEPT ![p] = "idle"]
  /\ op' = [op EXCEPT ![p] = NoCall]
  /\ buf' = [buf EXCEPT ![p] = <<>>]
  /\ UNCHANGED <<instances, store, fs, mu, now, aud, prs, met>>

\* one handler tests connections while another updates descriptors
PointerNext ==
  \/ \E id \in Ids : HoldInstance("h1", id)
  \/ GetAPIKey("h1")
  \/ NewClient("h1")
  \/ \E id \in Ids, r \in InstanceRequest : Update("h2", id, r)
  \/ \E id \in Ids, st \in InstanceStatus : UpdateStatus("h2", id, st)
  \/ Tick
  \/ Restart

PointerSpec == Init /\ [][PointerNext]_vars

SaveNext ==
  \/ \E p \in Procs : SaveRLock(p)
  \/ \E p \in Procs : SaveOpenTmp(p)
  \/ \E p \in Procs : SaveWritePart(p)
  \/ \E p \in Procs : SaveWriteTmp(p)
  \/ \E p \in Procs : SaveRename(p)
  \/ Restart

SaveSpec == SaveInit /\ [][SaveNext]_vars

\* ------------------------------------------------------ metrics store: data
\* a time.Time: whole seconds, whether there is a sub-second part, and the
\* zone as Format writes it ("Z" for UTC, else the offset)
Zones == {"Z", "+02:00"}
Time(sec, frac, zone) == [sec |-> sec, frac |-> frac, zone |-> zone]
Before(t, u) == t.sec < u.sec \/ (t.sec = u.sec /\ t.frac < u.frac)
After(t, u) == Before(u, t)

\* InstanceMetrics as CollectMetrics builds it
InstanceMetrics(id, t, n, codes) ==
  [InstanceID |-> id, Timestamp |-> t, Uptime |-> 0, NumRequests |-> n,
   TotalTraffic |-> 0, StatusCodes |-> codes]
\* json encoding of an InstanceMetrics ("sites" carries omitempty and is never set)
MarshalMetrics(m) ==
  [k \in {"instance_id", "timestamp", "uptime", "num_requests", "total_bytes", "status_codes"} |->
     CASE k = "instance_id" -> m.InstanceID
       [] k = "timestamp" -> m.Timestamp
       [] k = "uptime" -> m.Uptime
       [] k = "num_requests" -> m.NumRequests
       [] k = "total_bytes" -> m.TotalTraffic
       [] k = "status_codes" -> m.StatusCodes]
UnmarshalMetrics(obj) ==
  [InstanceID |-> obj["instance_id"], Timestamp |-> obj["timestamp"],
   Uptime |-> obj["uptime"], NumRequests |-> obj["num_requests"],
   TotalTraffic |-> obj["total_bytes"], StatusCodes |-> obj["status_codes"]]

\* len("2006-01-02T15:04:05Z07:00")
layoutLen == 25
\* the file name SaveMetrics uses: Timestamp.Format("2006-01-02T15:04:05Z07:00")
\* (19 bytes to the seconds, then the zone), then ".json"
FileName_Nanos(t) == [sec |-> t.sec, zone |-> t.zone, frac |-> t.frac]
FileName(t) == [sec |-> t.sec, zone |-> t.zone]
StampLen(name) == 19 + (IF name.zone = "Z" THEN 1 ELSE 6)
\* time.Parse(layout, entry.Name()[:len(layout)]): the first layoutLen bytes of
\* the name are the timestamp only when it is layoutLen long; a shorter
\* timestamp is followed by bytes of ".json" and does not parse
\* a file put in an instance's directory by something else than the store
\* (".DS_Store", "notes.txt", "backup-of-2024-01-01T10-00-01.json"): its first
\* byte and its length; the name is no timestamp
StrayName(first, len) == [first |-> first, len |-> len]
StrayNames == {StrayName(".", 9), StrayName("n", 9), StrayName("b", 34)}
IsStamp(name) == "sec" \in DOMAIN name
\* len(entry.Name())
NameLen(name) == IF IsStamp(name) THEN StampLen(name) + 5 ELSE name.len
\* entry.Name()[:len(layout)] panics (slice bounds out of range) on a name
\* shorter than the layout
SlicePanics(name) == NameLen(name) < layoutLen
ParseName(name) ==
  IF IsStamp(name) /\ StampLen(name) = layoutLen
  THEN [ok |-> TRUE, t |-> Time(name.sec, 0, name.zone)]
  ELSE [ok |-> FALSE, t |-> Time(0, 0, "Z")]

\* os.ReadDir(instDir): the names of the instance's files (none when the
\* directory is missing)
ReadDir(dir, id) == {k[2] : k \in {x \in DOMAIN dir : x[1] = id}}
\* os.WriteFile(filePath, data, 0644)
WriteFile(dir, key, data) == [k \in DOMAIN dir \cup {key} |-> IF k = key THEN data ELSE dir[k]]

\* GetMetrics: the snapshots of the files whose name parses and is neither
\* Before(start) nor After(end)
\* json.Unmarshal(data, &m) succeeds on the bytes SaveMetrics has written in
\* full, and fails on a file that os.WriteFile has created and not yet filled
PartialData == [bytes |-> ""]
Unmarshals(data) == "instance_id" \in DOMAIN data
GetMetricsIn(dir, id, start, end) ==
  {UnmarshalMetrics(dir[<<id, n>>]) :
     n \in {x \in ReadDir(dir, id) :
              /\ ParseName(x).ok
              /\ ~(Before(ParseName(x).t, start) \/ After(ParseName(x).t, end))
              /\ Unmarshals(dir[<<id, x>>])}}

\* GetLatestMetrics: the file with the greatest parsed name, or nil, nil
NoSnapshot == {}
Named(dir, id) == {x \in ReadDir(dir, id) : ParseName(x).ok}
LatestFile(dir, id) ==
  CHOOSE x \in Named(dir, id) : \A y \in Named(dir, id) : ~After(ParseName(y).t, ParseName(x).t)
GetLatestIn(dir, id) ==
  IF Named(dir, id) = {} THEN NoSnapshot
  ELSE {UnmarshalMetrics(dir[<<id, LatestFile(dir, id)>>])}

\* ------------------------------------------------------ metrics store: actions
\* the instances and snapshots the store is exercised with
MetricIds == {generateID(0), generateID(1)}
Snapshots(id) ==
  {InstanceMetrics(id, Time(sec, frac, z), 42, <<>>) : sec \in Times, frac \in {0, 1}, z \in Zones}
Instants == {Time(sec, 0, "Z") : sec \in Times}

\* NewAnalyticsStore on an empty directory
MetricsInit ==
  /\ metricsDir = <<>>
  /\ bg = {}
  /\ now = 1
  /\ RegistryUnused
  /\ AuditUnused
  /\ ParserUnused

\* AnalyticsStore.SaveMetrics: MkdirAll, then WriteFile under the name made of
\* the timestamp; or one of them fails
SaveMetrics(p, id, m) ==
  /\ Cardinality(DOMAIN metricsDir \cup {<<id, FileName(m.Timestamp)>>}) <= MaxFiles
  /\ \/ /\ metricsDir' = WriteFile(metricsDir, <<id, FileName(m.Timestamp)>>, MarshalMetrics(m))
        /\ ret' = [ret EXCEPT ![p] = Return("save_metrics", id, "nil", {m})]
     \/ /\ ret' = [ret EXCEPT ![p] = Return("save_metrics", id, "io", {m})]
        /\ UNCHANGED metricsDir
  /\ UNCHANGED <<instances, store, fs, mu, pc, op, buf, now, aud, prs, bg>>

\* AnalyticsStore.GetMetrics(instanceID, start, end)
GetMetrics(p, id, start, end) ==
  /\ ret' = [ret EXCEPT ![p] =
              IF \E n \in ReadDir(metricsDir, id) : SlicePanics(n)
              THEN Return("query", id, "panic", [start |-> start, end |-> end, found |-> {}])
              ELSE Return("query", id, "nil",
                          [start |-> start, end |-> end,
                           found |-> GetMetricsIn(metricsDir, id, start, end)])]
  /\ UNCHANGED <<instances, store, fs, mu, pc, op, buf, now, aud, prs, met>>

\* AnalyticsStore.GetLatestMetrics(instanceID)
GetLatestMetrics(p, id) ==
  /\ ret' = [ret EXCEPT ![p] =
              IF \E n \in ReadDir(metricsDir, id) : SlicePanics(n)
              THEN Return("latest", id, "panic", NoSnapshot)
              ELSE IF /\ Named(metricsDir, id) # {}
                      /\ ~Unmarshals(metricsDir[<<id, LatestFile(metricsDir, id)>>])
                   THEN Return("latest", id, "parse", NoSnapshot)
                   ELSE Return("latest", id, "nil", GetLatestIn(metricsDir, id))]
  /\ UNCHANGED <<instances, store, fs, mu, pc, op, buf, now, aud, prs, met>>

\* the store's methods called one after another by one caller
MetricsNext ==
  \/ \E id \in MetricIds : \E m \in Snapshots(id) : SaveMetrics("h1", id, m)
  \/ \E id \in MetricIds, start \in Instants, end \in Instants :
       GetMetrics("h1", id, start, end)
  \/ \E id \in MetricIds : GetLatestMetrics("h1", id)

MetricsSpec == MetricsInit /\ [][MetricsNext]_vars

\* ------------------------------------------------------ metrics store: retention
\* os.ReadDir returns the entries sorted by filename: a name made of a
\* timestamp starts with a digit, which sorts after "." and before a letter;
\* two timestamps compare by their seconds and then by the zone ("+" sorts
\* before "Z"); the instance directories compare by the digits of their id
ByteRank(first) == CASE first = "." -> 0 [] first = "b" -> 2 [] first = "n" -> 3
NameKey(name) ==
  IF IsStamp(name)
  THEN <<1, name.sec, IF name.zone = "Z" THEN 1 ELSE 0>>
  ELSE <<ByteRank(name.first), 0, 0>>
EntryKey(k) == <<k[1][2]>> \o NameKey(k[2])
KeyLess(a, b) ==
  \E i \in 1..4 : a[i] < b[i] /\ \A j \in 1..(i - 1) : a[j] = b[j]
RECURSIVE SortedEntries(_)
SortedEntries(S) ==
  IF S = {} THEN <<>>
  ELSE LET k == CHOOSE x \in S : \A y \in S \ {x} : KeyLess(EntryKey(x), EntryKey(y))
       IN <<k>> \o SortedEntries(S \ {k})

\* the loops of CleanupOldMetrics over the instance directories and their
\* entries: the slice of a short name panics and ends the walk, a name that
\* does not parse is skipped, a file whose parsed name is Before(cutoff) is
\* removed
RECURSIVE CleanupWalk(_, _, _)
CleanupWalk(dir, entries, cutoff) ==
  IF entries = <<>> THEN [dir |-> dir, err |-> "nil"]
  ELSE LET k == Head(entries)
       IN IF SlicePanics(k[2]) THEN [dir |-> dir, err |-> "panic"]
          ELSE IF ParseName(k[2]).ok /\ Before(ParseName(k[2]).t, cutoff)
               THEN CleanupWalk(Remove(dir, k), Tail(entries), cutoff)
               ELSE CleanupWalk(dir, Tail(entries), cutoff)

\* the ages CleanupOldMetrics is called with, in seconds
Ages == 0..1
\* AnalyticsStore.CleanupOldMetrics(maxAge): cutoff is time.Now().Add(-maxAge),
\* an instant with a sub-second part or without
CleanupOldMetrics(p, maxAge, frac) ==
  /\ LET cutoff == Time(now - maxAge, frac, "Z")
         walk == CleanupWalk(metricsDir, SortedEntries(DOMAIN metricsDir), cutoff)
     IN /\ metricsDir' = walk.dir
        /\ ret' = [ret EXCEPT ![p] = Return("prune", generateID(0), walk.err, {cutoff})]
  /\ UNCHANGED <<instances, store, fs, mu, pc, op, buf, now, aud, prs, bg>>

\* another program (the desktop, an editor, a backup) puts a file in the
\* directory of an instance
StrayData == [bytes |-> "other"]
StrayFile(id, name) ==
  /\ <<id, name>> \notin DOMAIN metricsDir
  /\ Cardinality(DOMAIN metricsDir) < MaxFiles
  /\ metricsDir' = WriteFile(metricsDir, <<id, name>>, StrayData)
  /\ UNCHANGED <<reg, now, aud, prs, bg>>

RetentionInit ==
  /\ metricsDir = <<>>
  /\ bg = {}
  /\ now \in Times
  /\ RegistryUnused
  /\ AuditUnused
  /\ ParserUnused

RetentionNext ==
  \/ \E id \in MetricIds : \E m \in Snapshots(id) : SaveMetrics("h1", id, m)
  \/ \E id \in MetricIds, start \in Instants, end \in Instants :
       GetMetrics("h1", id, start, end)
  \/ \E id \in MetricIds : GetLatestMetrics("h1", id)
  \/ \E maxAge \in Ages, frac \in {0, 1} : CleanupOldMetrics("h1", maxAge, frac)
  \/ \E id \in MetricIds, name \in StrayNames : StrayFile(id, name)

RetentionSpec == RetentionInit /\ [][RetentionNext]_vars

\* ------------------------------------------------------ metrics store: captures
\* the request counts of the captured snapshots
Counts == {42, 43}
\* SaveMetrics as CollectMetrics calls it: the Timestamp is time.Now(), in the
\* zone of the process, which is the zone of the files it has written
SaveCaptured(p, id, frac, n) ==
  \E z \in Zones :
    /\ \A k \in DOMAIN metricsDir : k[2].zone = z
    /\ SaveMetrics(p, id, InstanceMetrics(id, Time(now, frac, z), n, <<>>))

CaptureInit ==
  /\ metricsDir = <<>>
  /\ bg = {}
  /\ now = 1
  /\ RegistryUnused
  /\ AuditUnused
  /\ ParserUnused

CaptureNext ==
  \/ \E id \in MetricIds, frac \in {0, 1}, n \in Counts : SaveCaptured("h1", id, frac, n)
  \/ \E id \in MetricIds : GetLatestMetrics("h1", id)
  \/ Tick

CaptureSpec == CaptureInit /\ [][CaptureNext]_vars

\* ------------------------------------------------------ metrics store: a save in steps
\* os.WriteFile inside SaveMetrics: OpenFile with O_CREATE|O_TRUNC leaves the
\* file empty, Write fills it. SaveMetrics holds s.mu.Lock meanwhile;
\* GetMetrics and GetLatestMetrics take no lock
SaveMetricsOpen(p, id, m) ==
  /\ pc[p] = "idle"
  /\ Cardinality(DOMAIN metricsDir \cup {<<id, FileName(m.Timestamp)>>}) <= MaxFiles
  /\ metricsDir' = WriteFile(metricsDir, <<id, FileName(m.Timestamp)>>, PartialData)
  /\ pc' = [pc EXCEPT ![p] = "write_metrics"]
  /\ buf' = [buf EXCEPT ![p] = <<m>>]
  /\ UNCHANGED <<instances, store, fs, mu, op, ret, now, aud, prs, bg>>
SaveMetricsWrite(p) ==
  /\ pc[p] = "write_metrics"
  /\ LET m == buf[p][1]
     IN /\ metricsDir' = WriteFile(metricsDir, <<m.InstanceID, FileName(m.Timestamp)>>,
                                   MarshalMetrics(m))
        /\ ret' = [ret EXCEPT ![p] = Return("save_metrics", m.InstanceID, "nil", {m})]
  /\ pc' = [pc EXCEPT ![p] = "idle"]
  /\ buf' = [buf EXCEPT ![p] = <<>>]
  /\ UNCHANGED <<instances, store, fs, mu, op, now, aud, prs, bg>>

\* one goroutine saves while another reads
ConcurrentNext ==
  \/ \E id \in MetricIds : \E m \in Snapshots(id) : SaveMetricsOpen("h2", id, m)
  \/ SaveMetricsWrite("h2")
  \/ \E id \in MetricIds, start \in Instants, end \in Instants :
       GetMetrics("h1", id, start, end)
  \/ \E id \in MetricIds : GetLatestMetrics("h1", id)

ConcurrentSpec == MetricsInit /\ [][ConcurrentNext]_vars

\* ------------------------------------------------------ admin API client
\* decoded JSON values (interface{}): a map, a slice, a string or a float64;
\* Text is a body that is no JSON
Obj(fields) == [kind |-> "object", val |-> fields]
Arr(items) == [kind |-> "array", val |-> items]
Str(x) == [kind |-> "string", val |-> x]
Num(n) == [kind |-> "number", val |-> n]
Text(x) == [kind |-> "text", val |-> x]
NoFields == <<>>

\* http.StatusOK
StatusOK == 200
\* what httpClient.Do gives: an error (connection refused, timeout, DNS), or
\* a response with its status code and body
Failed(cause) == [net |-> TRUE, cause |-> cause, status |-> 0, body |-> Text("")]
Response(status, body) == [net |-> FALSE, cause |-> "", status |-> status, body |-> body]

\* the methods of Client that send one request and decode nothing
Methods ==
  {"Ping", "GetServerInfo", "GetConfig", "ReloadConfig", "Stop", "GetMetrics",
   "CreateSite", "DeleteSite"}
\* the error each method makes of a response whose status is not 200: the
\* format string and its argument
StatusError(method, resp) ==
  CASE method = "Ping" -> <<"unexpected status: %d", Num(resp.status)>>
    [] method = "GetServerInfo" -> <<"failed to get server info: status %d", Num(resp.status)>>
    [] method = "GetConfig" -> <<"failed to get config: %s", resp.body>>
    [] method = "ReloadConfig" -> <<"config reload failed: %s", resp.body>>
    [] method = "Stop" -> <<"stop failed: %s", resp.body>>
    [] method = "GetMetrics" -> <<"failed to get metrics: status %d", Num(resp.status)>>
    [] method = "CreateSite" -> <<"failed to create site: %s", resp.body>>
    [] method = "DeleteSite" -> <<"failed to delete site: %s", resp.body>>
NoError == <<>>
\* doRequest, then the status test of the method
Request(method, resp) ==
  IF resp.net THEN <<"request failed: %w", Text(resp.cause)>>
  ELSE IF resp.status # StatusOK THEN StatusError(method, resp)
  ELSE NoError

\* json.Unmarshal(body, &config) into Config{Apps map[string]any}: the body
\* must be a JSON object whose "apps", when present, is an object; Apps is nil
\* without it
UnmarshalConfig(body) ==
  IF body.kind # "object" THEN [ok |-> FALSE, Apps |-> NoFields]
  ELSE IF "apps" \notin DOMAIN body.val THEN [ok |-> TRUE, Apps |-> NoFields]
  ELSE IF body.val["apps"].kind # "object" THEN [ok |-> FALSE, Apps |-> NoFields]
  ELSE [ok |-> TRUE, Apps |-> body.val["apps"].val]
\* Client.GetConfig
GetConfig(resp) ==
  IF Request("GetConfig", resp) # NoError
  THEN [err |-> Request("GetConfig", resp), Apps |-> NoFields]
  ELSE IF ~UnmarshalConfig(resp.body).ok
       THEN [err |-> <<"failed to parse config: %w", resp.body>>, Apps |-> NoFields]
       ELSE [err |-> NoError, Apps |-> UnmarshalConfig(resp.body).Apps]

\* m[key].(map[string]interface{}) with the comma-ok form
IsMap(m, key) == key \in DOMAIN m /\ m[key].kind = "object"
\* fmt.Sprintf("%v", l)
Sprint(v) == IF v.kind = "number" /\ v.val = 443 THEN "443" ELSE v.val
\* Site{Name, Listen}: Listen only when "listen" is a slice
Site(name, srv) ==
  [Name |-> name,
   Listen |-> IF "listen" \in DOMAIN srv.val /\ srv.val["listen"].kind = "array"
              THEN [i \in DOMAIN srv.val["listen"].val |-> Sprint(srv.val["listen"].val[i])]
              ELSE <<>>]
\* Client.GetSites: srv.(map[string]interface{}) without the comma-ok form
\* panics on a server that is no object
GetSites(resp) ==
  LET config == GetConfig(resp)
  IN IF config.err # NoError THEN [err |-> config.err, panic |-> FALSE, sites |-> {}]
     ELSE IF ~IsMap(config.Apps, "http") \/ ~IsMap(config.Apps["http"].val, "servers")
          THEN [err |-> NoError, panic |-> FALSE, sites |-> {}]
          ELSE LET servers == config.Apps["http"].val["servers"].val
               IN IF \E name \in DOMAIN servers : servers[name].kind # "object"
                  THEN [err |-> NoError, panic |-> TRUE, sites |-> {}]
                  ELSE [err |-> NoError, panic |-> FALSE,
                        sites |-> {Site(name, servers[name]) : name \in DOMAIN servers}]

\* the configurations an instance answers GET /config/ with
HttpApp(http) == Obj("apps" :> Obj("http" :> http))
Servers(servers) == HttpApp(Obj("servers" :> Obj(servers)))
Srv0 == Obj("listen" :> Arr(<<Str(":443"), Str(":80")>>))
Srv1 == Obj("listen" :> Arr(<<Num(443)>>))
Configs ==
  {Obj(NoFields), Obj("apps" :> Obj(NoFields)), Obj("apps" :> Str("none")),
   HttpApp(Str("off")), HttpApp(Obj(NoFields)), HttpApp(Obj("servers" :> Arr(<<>>))),
   Servers(NoFields), Servers("srv0" :> Srv0), Servers("srv0" :> Srv0 @@ "srv1" :> Srv1),
   Servers("srv0" :> Obj("listen" :> Str(":443"))), Servers("srv0" :> Obj(NoFields)),
   Servers("srv0" :> Str("disabled")), Servers("srv0" :> Srv0 @@ "srv1" :> Str("disabled"))}
\* the answers of an instance
Responses ==
  {Failed("connection refused")}
    \cup {Response(st, body) : st \in {StatusOK, 201, 204, 404, 500},
                               body \in {Text(""), Text("not allowed")}}
    \cup {Response(StatusOK, c) : c \in Configs}

\* the call ended in a run-time panic (interface conversion)
Panic == <<"panic: interface conversion: interface {} is %T, not map[string]interface {}">>
\* a handler calls a method of the client
Call(p, method, resp) ==
  /\ ret' = [ret EXCEPT ![p] =
              Return(method, generateID(0), Request(method, resp), {resp})]
  /\ UNCHANGED <<instances, store, fs, mu, pc, op, buf, now, aud, prs, met>>
ListSites(p, resp) ==
  /\ ret' = [ret EXCEPT ![p] =
              Return("GetSites", generateID(0),
                     IF GetSites(resp).panic THEN Panic ELSE GetSites(resp).err,
                     [resp |-> resp, sites |-> GetSites(resp).sites])]
  /\ UNCHANGED <<instances, store, fs, mu, pc, op, buf, now, aud, prs, met>>

ClientInit ==
  /\ now = 1
  /\ RegistryUnused
  /\ AuditUnused
  /\ MetricsUnused
  /\ ParserUnused
ClientNext ==
  \/ \E method \in Methods, resp \in Responses : Call("h1", method, resp)
  \/ \E resp \in Responses : ListSites("h1", resp)

ClientSpec == ClientInit /\ [][ClientNext]_vars

\* ------------------------------------------------------ fleet service: data
\* GetAPIKey: no file named is no key; else os.ReadFile succeeds or fails
KeyFileOutcomes(inst) == IF inst.APIKeyFile = "" THEN {"nil"} ELSE {"nil", "credential"}
\* Client.Ping: 200, the request failed (doRequest), or another status code
PingOutcomes == {"ok", "unreachable", "status"}
Pinged == {"pinged_ok", "pinged_unreachable", "pinged_status"}
PingedAs(o) ==
  CASE o = "ok" -> "pinged_ok" [] o = "unreachable" -> "pinged_unreachable"
    [] o = "status" -> "pinged_status"

\* exposition text is its lines (strings.Split at "\n"), a line the pieces
\* it is written with: a piece is a run of bytes that the parser's searches
\* either contain whole or miss, so searching the line is searching its pieces
Numerals == {"7", "42", "200"}
NumberOf(piece) == CASE piece = "7" -> 7 [] piece = "42" -> 42 [] piece = "200" -> 200
Quote == "\""
CodeEq == "code=\""
HostEq == "host=\""
\* the substrings among "requests", "response_size", "request_duration",
\* "code=", "host=" that a piece contains
Within(piece) ==
  CASE piece = "caddy_http_requests" -> {"requests"}
    [] piece = "caddy_http_response_size_bytes" -> {"response_size"}
    [] piece = CodeEq -> {"code="}
    [] piece = HostEq -> {"host="}
    [] OTHER -> {}
\* strings.Contains(s, substr)
Contains(s, substr) == \E i \in DOMAIN s : substr \in Within(s[i])
\* strings.HasSuffix(metricName, "_total")
HasSuffixTotal(s) == Len(s) > 0 /\ s[Len(s)] = "_total"
\* strings.Index(s, piece): the first position of the piece, 0 for Go's -1
Index(s, piece) ==
  IF \E i \in DOMAIN s : s[i] = piece
  THEN CHOOSE i \in DOMAIN s : s[i] = piece /\ \A j \in 1..(i - 1) : s[j] # piece
  ELSE 0
\* strings.TrimSpace(line)
RECURSIVE TrimSpace(_)
TrimSpace(line) ==
  IF Len(line) = 0 THEN line
  ELSE IF line[1] = " " THEN TrimSpace(Tail(line))
  ELSE IF line[Len(line)] = " " THEN TrimSpace(SubSeq(line, 1, Len(line) - 1))
  ELSE line
\* strings.SplitN(line, " ", 2)
SplitN(line) ==
  IF Index(line, " ") = 0 THEN <<line>>
  ELSE <<SubSeq(line, 1, Index(line, " ") - 1), SubSeq(line, Index(line, " ") + 1, Len(line))>>
\* fmt.Sscanf(valueStr, "%f", &value): leading spaces are passed over and the
\* number at the front is taken; what follows the number is not looked at
RECURSIVE ScanFloat(_)
ScanFloat(valueStr) ==
  IF Len(valueStr) = 0 THEN [ok |-> FALSE, value |-> 0]
  ELSE IF valueStr[1] = " " THEN ScanFloat(Tail(valueStr))
  ELSE IF valueStr[1] \in Numerals THEN [ok |-> TRUE, value |-> NumberOf(valueStr[1])]
  ELSE [ok |-> FALSE, value |-> 0]
\* extractLabel(metricName, label), pattern being label + "=\""
extractLabel(metricName, pattern) ==
  LET start == Index(metricName, pattern)
      rest == SubSeq(metricName, start + 1, Len(metricName))
  IN IF start = 0 THEN <<>>
     ELSE IF Index(rest, Quote) = 0 THEN <<>>
     ELSE SubSeq(rest, 1, Index(rest, Quote) - 1)

\* the PrometheusMetrics ParsePrometheusMetrics starts from
NewPrometheusMetrics ==
  [RequestsTotal |-> 0, ResponseSizes |-> <<>>, RequestDurations |-> <<>>,
   RequestsByCode |-> <<>>, RequestsByHost |-> <<>>]
\* the body of the loop over the lines
ParseLine(m, rawLine) ==
  LET line == TrimSpace(rawLine)
      parts == SplitN(line)
      metricName == parts[1]
      value == ScanFloat(parts[2])
  IN IF Len(line) = 0 \/ line[1] = "#" THEN m
     ELSE IF Len(parts) # 2 THEN m
     ELSE IF ~value.ok THEN m
     ELSE IF HasSuffixTotal(metricName) /\ Contains(metricName, "requests")
       THEN [m EXCEPT !.RequestsTotal = value.value,
                      !.RequestsByCode =
                        IF Contains(metricName, "code=")
                        THEN Put(@, extractLabel(metricName, CodeEq), value.value) ELSE @,
                      !.RequestsByHost =
                        IF Contains(metricName, "host=")
                        THEN Put(@, extractLabel(metricName, HostEq), value.value) ELSE @]
     ELSE IF Contains(metricName, "response_size")
       THEN [m EXCEPT !.ResponseSizes = Put(@, "total", value.value)]
     ELSE IF Contains(metricName, "request_duration")
       THEN [m EXCEPT !.RequestDurations = Put(@, "total", value.value)]
     ELSE m
\* ParsePrometheusMetrics: the lines in order; it has no error return path
RECURSIVE ParsePrometheusMetrics(_)
ParsePrometheusMetrics(text) ==
  IF Len(text) = 0 THEN NewPrometheusMetrics
  ELSE ParseLine(ParsePrometheusMetrics(SubSeq(text, 1, Len(text) - 1)), text[Len(text)])

\* caddy_http_requests_total{code="200",host="a.com"} 42
LabelledLine ==
  <<"caddy_http_requests", "_total", "{", CodeEq, "200", Quote, ",", HostEq, "a.com", Quote,
    "}", " ", "42">>
\* lines of an exposition text: a total without labels, a total with labels,
\* a response size, a comment, an empty line, and lines with a value that is
\* no number, with no space before the value, with a number followed by junk
MetricLines ==
  {<<"caddy_http_requests", "_total", " ", "7">>,
   LabelledLine,
   <<"caddy_http_response_size_bytes", " ", "42">>,
   <<"#", " ", "HELP">>,
   <<>>,
   <<"caddy_http_requests", "_total", " ", "abc">>,
   <<"caddy_http_requests", "_total", "42">>,
   <<"caddy_http_requests", "_total", " ", "42", "abc">>}
\* the text CollectMetrics fetches
ExpositionTexts ==
  {<<<<"caddy_http_requests", "_total", " ", "abc">>, LabelledLine>>}
\* fmt.Sscanf(codeStr, "%d", &code)
Sscanf(codeStr) ==
  IF Len(codeStr) > 0 /\ codeStr[1] \in Numerals THEN NumberOf(codeStr[1]) ELSE 0
\* metrics.StatusCodes[code] = int64(count) for each code of RequestsByCode
StatusCodesOf(pm) ==
  [n \in {Sscanf(c) : c \in DOMAIN pm.RequestsByCode} |->
     pm.RequestsByCode[CHOOSE c \in DOMAIN pm.RequestsByCode : Sscanf(c) = n]]

\* ------------------------------------------------------ parser: actions
Texts == UNION {[1..n -> MetricLines] : n \in 0..MaxLines}
\* an exposition text has been fetched and is about to be parsed
ParserInit ==
  /\ metricsText \in Texts
  /\ parsed = {}
  /\ now = 1
  /\ RegistryUnused
  /\ AuditUnused
  /\ MetricsUnused

\* pm, err := ParsePrometheusMetrics(metricsText)
Parse ==
  /\ parsed = {}
  /\ parsed' = {ParsePrometheusMetrics(metricsText)}
  /\ UNCHANGED <<reg, now, aud, met, metricsText>>

ParserNext == Parse

ParserSpec == ParserInit /\ [][ParserNext]_vars

\* registry files a fleet can start from: descriptors whose status a
\* previous run has recorded
ServiceSeedMaps ==
  UNION {{m \in [S -> {[x EXCEPT !.Status = st] :
                         x \in SeedInstances, st \in {StatusUnknown, StatusOnline}}] :
            \A i \in S : m[i].ID = i /\ m[i].Name = "edge-2"} :
           S \in SUBSET {generateID(0)}}

\* ------------------------------------------------------ fleet service: actions
\* process start with the registry loaded from instances.json
ServiceInit ==
  /\ \E m \in ServiceSeedMaps : \E o \in Orders(DOMAIN m) :
       /\ fs = Files(IF m = <<>> THEN NoFile ELSE FileOf(MarshalIndent(m, o)), NoFile)
       /\ instances = NewInstanceStore(fs[filePath]).instances
  /\ store = "up"
  /\ mu = NoLock
  /\ pc = [p \in Procs |-> "idle"]
  /\ op = [p \in Procs |-> NoCall]
  /\ ret = [p \in Procs |-> NoRet]
  /\ buf = [p \in Procs |-> <<>>]
  /\ now = 1
  /\ AuditUnused
  /\ MetricsUnused
  /\ ParserUnused

\* a service call returns err without having changed the registry
ServiceReturn(p, kind, id, err, val) ==
  /\ ret' = [ret EXCEPT ![p] = Return(kind, id, err, val)]
  /\ UNCHANGED <<instances, mu, pc, op>>

\* s.store.Get(id) and NewClientFromInstance done, client.Ping() sent
SendPing(p, kind, id) ==
  /\ pc' = [pc EXCEPT ![p] = "ping"]
  /\ op' = [op EXCEPT ![p] = Frame(kind, id, NoReq, instances[id].Status)]
  /\ ret' = [ret EXCEPT ![p] = NoRet]
  /\ UNCHANGED <<instances, mu>>

\* InstanceService.TestConnection up to its Ping
TestConnection(p, id) ==
  /\ store = "up" /\ pc[p] = "idle" /\ RLockFree
  /\ IF id \notin DOMAIN instances
     THEN ServiceReturn(p, "test_connection", id, "not_found", {})
     ELSE \E key \in KeyFileOutcomes(instances[id]) :
            IF key # "nil"
            THEN ServiceReturn(p, "test_connection", id, key, {})
            ELSE SendPing(p, "test_connection", id)
  /\ UNCHANGED <<store, fs, buf, now, aud, prs, met>>

\* InstanceService.RefreshStatus up to its Ping, or up to its
\* UpdateStatus(id, StatusUnknown) when the client cannot be built
RefreshStart(p, id) ==
  /\ store = "up" /\ pc[p] = "idle" /\ RLockFree
  /\ IF id \notin DOMAIN instances
     THEN ServiceReturn(p, "refresh_status", id, "not_found", {})
     ELSE \E key \in KeyFileOutcomes(instances[id]) :
            IF key # "nil"
            THEN /\ pc' = [pc EXCEPT ![p] = "no_client"]
                 /\ op' = [op EXCEPT ![p] = Frame("refresh_status", id, NoReq, StatusUnknown)]
                 /\ ret' = [ret EXCEPT ![p] = NoRet]
                 /\ UNCHANGED <<instances, mu>>
            ELSE SendPing(p, "refresh_status", id)
  /\ UNCHANGED <<store, fs, buf, now, aud, prs, metricsDir>>

RefreshStatus(p, id) == RefreshStart(p, id) /\ UNCHANGED bg

\* InstanceService.RefreshAllStatuses: List, then one `go s.RefreshStatus(id)`
\* for each instance listed; it returns without waiting for them
RefreshAllStatuses(p) ==
  /\ store = "up" /\ pc[p] = "idle" /\ RLockFree
  /\ bg' = bg \cup DOMAIN instances
  /\ ServiceReturn(p, "refresh_all", generateID(0), "nil", {})
  /\ UNCHANGED <<store, fs, buf, now, aud, prs, metricsDir>>

\* a goroutine started by RefreshAllStatuses begins its RefreshStatus(id)
SpawnedRefresh(p, id) ==
  /\ id \in bg
  /\ bg' = bg \ {id}
  /\ RefreshStart(p, id)

\* a ping answered with a failure status marks the instance as updating
PingReply_Updating(p) ==
  /\ pc[p] = "ping"
  /\ \E o \in PingOutcomes :
       /\ pc' = [pc EXCEPT ![p] = PingedAs(o)]
       /\ op' = [op EXCEPT ![p].status =
                   CASE o = "ok" -> StatusOnline [] o = "status" -> StatusUpdating
                     [] OTHER -> StatusOffline]
  /\ UNCHANGED <<instances, store, fs, mu, ret, buf, now, aud, prs, met>>

\* client.Ping() returns: nil, or an error
PingReply(p) ==
  /\ pc[p] = "ping"
  /\ \E o \in PingOutcomes :
       /\ pc' = [pc EXCEPT ![p] = PingedAs(o)]
       /\ op' = [op EXCEPT ![p].status = IF o = "ok" THEN StatusOnline ELSE StatusOffline]
  /\ UNCHANGED <<instances, store, fs, mu, ret, buf, now, aud, prs, met>>

\* what TestConnection / RefreshStatus return once UpdateStatus has returned err
AfterUpdateStatus(kind, at, err) ==
  IF kind = "test_connection"
  THEN (IF at = "pinged_ok" THEN "nil" ELSE "ping")
  ELSE (IF at = "no_client" THEN "nil" ELSE err)

\* the status refresh that drops an instance found offline
SetStatus_DropOffline(p) ==
  /\ store = "up" /\ pc[p] \in Pinged \cup {"no_client"} /\ LockFree
  /\ IF op[p].id \notin DOMAIN instances
     THEN /\ pc' = [pc EXCEPT ![p] = "idle"]
          /\ ret' = [ret EXCEPT ![p] =
                       Return(op[p].kind, op[p].id,
                              AfterUpdateStatus(op[p].kind, pc[p], "not_found"), {})]
          /\ UNCHANGED <<instances, mu, op>>
     ELSE EnterSave(p, op[p],
                    IF op[p].status = StatusOffline THEN Remove(instances, op[p].id)
                    ELSE [instances EXCEPT ![op[p].id].Status = op[p].status,
                                           ![op[p].id].LastPing = now,
                                           ![op[p].id].UpdatedAt = now])
  /\ UNCHANGED <<store, fs, buf, now, aud, prs, met>>

\* the s.store.UpdateStatus(id, status) that TestConnection and RefreshStatus
\* end with: an id no longer there lets the caller return, otherwise the
\* status is set and save is called
SetStatus(p) ==
  /\ store = "up" /\ pc[p] \in Pinged \cup {"no_client"} /\ LockFree
  /\ IF op[p].id \notin DOMAIN instances
     THEN /\ pc' = [pc EXCEPT ![p] = "idle"]
          /\ ret' = [ret EXCEPT ![p] =
                       Return(op[p].kind, op[p].id,
                              AfterUpdateStatus(op[p].kind, pc[p], "not_found"), {})]
          /\ UNCHANGED <<instances, mu, op>>
     ELSE EnterSave(p, op[p],
                    [instances EXCEPT ![op[p].id].Status = op[p].status,
                                      ![op[p].id].LastPing = now,
                                      ![op[p].id].UpdatedAt = now])
  /\ UNCHANGED <<store, fs, buf, now, aud, prs, met>>

\* what HealthCheck returns beside the error: healthy, and the message with
\* the text of the underlying error, if any
Health(healthy, message, cause) == [healthy |-> healthy, message |-> <<message, cause>>]

\* HealthCheck that returns the error of a failed ping to its caller
HealthCheck_PingError(p, id) ==
  /\ store = "up" /\ pc[p] = "idle" /\ RLockFree
  /\ IF id \notin DOMAIN instances
     THEN ServiceReturn(p, "health_check", id, "not_found", {})
     ELSE \/ /\ "credential" \in KeyFileOutcomes(instances[id])
             /\ ServiceReturn(p, "health_check", id, "nil",
                              {Health(FALSE, "Failed to create client", "credential")})
          \/ \E o \in PingOutcomes \ {"ok"} :
               ServiceReturn(p, "health_check", id, o, {})
          \/ \E message \in {"Reachable", "Version"} :
               ServiceReturn(p, "health_check", id, "nil", {Health(TRUE, message, "")})
  /\ UNCHANGED <<store, fs, buf, now, aud, prs, met>>

\* ConfigService.HealthCheck: only an unknown id is an error; a client that
\* cannot be built and a failed ping are reported as not healthy with the
\* error's text; after the ping GetServerInfo adds the version or fails
HealthCheck(p, id) ==
  /\ store = "up" /\ pc[p] = "idle" /\ RLockFree
  /\ IF id \notin DOMAIN instances
     THEN ServiceReturn(p, "health_check", id, "not_found", {})
     ELSE \/ /\ "credential" \in KeyFileOutcomes(instances[id])
             /\ ServiceReturn(p, "health_check", id, "nil",
                              {Health(FALSE, "Failed to create client", "credential")})
          \/ \E o \in PingOutcomes \ {"ok"} :
               ServiceReturn(p, "health_check", id, "nil", {Health(FALSE, "Ping failed", o)})
          \/ \E message \in {"Reachable", "Version"} :
               ServiceReturn(p, "health_check", id, "nil", {Health(TRUE, message, "")})
  /\ UNCHANGED <<store, fs, buf, now, aud, prs, met>>

\* CollectMetrics that leaves an empty snapshot behind when it fails
CollectFail_WritesEmpty(p, id, err) ==
  /\ ServiceReturn(p, "collect_metrics", id, err, {})
  /\ metricsDir' = WriteFile(metricsDir, <<id, FileName(Time(now, 0, "Z"))>>,
                             MarshalMetrics(InstanceMetrics(id, Time(now, 0, "Z"), 0, <<>>)))

\* CollectMetrics returns nil, err: before anything is built or stored
CollectFail(p, id, err) ==
  /\ ServiceReturn(p, "collect_metrics", id, err, {})
  /\ UNCHANGED metricsDir

\* ConfigService.CollectMetrics: Get, client, GetMetrics, parse, build the
\* snapshot stamped time.Now(), SaveMetrics (its error dropped), return it
CollectMetrics(p, id) ==
  /\ store = "up" /\ pc[p] = "idle" /\ RLockFree
  /\ IF id \notin DOMAIN instances
     THEN CollectFail(p, id, "not_found")
     ELSE \/ /\ "credential" \in KeyFileOutcomes(instances[id])
             /\ CollectFail(p, id, "credential")
          \/ \E fetch \in {"unreachable", "status"} : CollectFail(p, id, fetch)
          \/ \E text \in ExpositionTexts, z \in Zones :
               LET pm == ParsePrometheusMetrics(text)
                   m == InstanceMetrics(id, Time(now, 0, z), pm.RequestsTotal, StatusCodesOf(pm))
                   key == <<id, FileName(m.Timestamp)>>
               IN /\ ServiceReturn(p, "collect_metrics", id, "nil", {m})
                  /\ \/ /\ Cardinality(DOMAIN metricsDir \cup {key}) <= MaxFiles
                        /\ metricsDir' = WriteFile(metricsDir, key, MarshalMetrics(m))
                     \/ UNCHANGED metricsDir
  /\ UNCHANGED <<store, fs, buf, now, aud, prs, bg>>

\* the ids calls are made with: the registered ones and one that is not
CalledIds == DOMAIN instances \cup {generateID(MaxTime)}

\* h1 serves the fleet calls and h2 the registry mutations; a goroutine of
\* RefreshAllStatuses runs in whichever of the two is free
ServiceNext ==
  \/ \E r \in InstanceRequest : Create("h2", r)
  \/ \E i \in CalledIds, r \in InstanceRequest : Update("h2", i, r)
  \/ \E i \in CalledIds : Delete("h2", i)
  \/ \E i \in CalledIds : TestConnection("h1", i)
  \/ \E i \in CalledIds : RefreshStatus("h1", i)
  \/ RefreshAllStatuses("h1")
  \/ \E p \in Procs, i \in Ids : SpawnedRefresh(p, i)
  \/ \E p \in Procs : PingReply(p)
  \/ \E p \in Procs : SetStatus(p)
  \/ \E i \in CalledIds : HealthCheck("h1", i)
  \/ \E i \in CalledIds : CollectMetrics("h1", i)
  \/ Tick
  \/ Restart

ServiceSpec == ServiceInit /\ [][ServiceNext]_vars

\* a ping returns within the client's timeout, and a goroutine that can take
\* the lock it waits for does run
ServiceFairSpec ==
  ServiceSpec /\ \A p \in Procs :
    WF_vars(PingReply(p)) /\ WF_vars(SetStatus(p)) /\ WF_vars(SaveRLock(p))

\* a fleet of two registered instances whose statuses are refreshed
RefreshInit ==
  /\ \E m \in {x \in [{generateID(0), generateID(1)} -> SeedInstances] :
                  \A i \in DOMAIN x : x[i].ID = i /\ x[i].Name = "edge-2"} :
       \E o \in Orders(DOMAIN m) :
         /\ fs = Files(FileOf(MarshalIndent(m, o)), NoFile)
         /\ instances = NewInstanceStore(fs[filePath]).instances
  /\ store = "up"
  /\ mu = NoLock
  /\ pc = [p \in Procs |-> "idle"]
  /\ op = [p \in Procs |-> NoCall]
  /\ ret = [p \in Procs |-> NoRet]
  /\ buf = [p \in Procs |-> <<>>]
  /\ now \in Times
  /\ AuditUnused
  /\ MetricsUnused
  /\ ParserUnused

RefreshNext ==
  \/ RefreshAllStatuses("h1")
  \/ \E p \in Procs, i \in Ids : SpawnedRefresh(p, i)
  \/ \E p \in Procs : PingReply(p)
  \/ \E p \in Procs : SetStatus(p)
  \/ Tick

RefreshSpec == RefreshInit /\ [][RefreshNext]_vars

\* a spawned goroutine starts, a ping returns within the client's timeout,
\* and a goroutine that can take the lock it waits for does run
RefreshFairSpec ==
  RefreshSpec /\ \A p \in Procs :
    /\ WF_vars(\E i \in Ids : SpawnedRefresh(p, i))
    /\ WF_vars(PingReply(p)) /\ WF_vars(SetStatus(p)) /\ WF_vars(SaveRLock(p))

\* ====================================================== registry claims
\* what a registry constructed from the file as it stands would list
Reloaded == NewInstanceStore(fs[filePath]).instances

\* C1: a registry mutation completes: in particular its disk-write step
\* (save) never waits for a lock that the mutation itself already holds.
C1_SaveNeverWaitsOnOwnLock ==
  \A p \in Procs : pc[p] = "save" => mu.writer # p

\* C2: for every valid creation input, create returns, and get(id) with the
\* returned id yields a descriptor with the input's name, endpoint,
\* credential_ref and tags and with status unknown.
C2_CreateThenGet ==
  \A p \in Procs :
    (pc[p] = "save" /\ op[p].kind = "create")
      ~> (/\ pc[p] = "idle"
          /\ ret[p].kind = "create" =>
               /\ ret[p].err = "nil"
               /\ ret[p].id \in DOMAIN instances
               /\ \E r \in InstanceRequest :
                    instances[ret[p].id] =
                      NewInstance(ret[p].id, r, instances[ret[p].id].CreatedAt))

\* C3: the id create assigns is never the id of a descriptor the registry
\* already holds (ids are unique and a create never overwrites a descriptor).
C3_CreateNeverOverwrites ==
  [][\A p \in Procs :
       (pc[p] = "idle" /\ pc'[p] = "save" /\ op'[p].kind = "create")
         => op'[p].id \notin DOMAIN instances]_vars

\* C4: what mutations have put in the registry is written to the file, so
\* that a registry constructed from the file lists the same descriptors,
\* field for field.
C4_WrittenThenReloaded ==
  \A p \in Procs :
    (pc[p] = "save" /\ op[p].kind \in Mutations) ~> (pc[p] = "idle" /\ Reloaded = instances)

\* C5: get, update, delete and set_status on an id that is not in the
\* registry return NotFound and leave the registry and the files as they
\* were; update, delete and set_status go on to save only for a known id.
C5_NotFoundLeavesState ==
  [][\A p \in Procs :
       /\ (ret'[p] # ret[p] /\ ret'[p].kind \in {"get", "update", "delete", "set_status"}
            /\ ret'[p].id \notin DOMAIN instances)
           => (ret'[p].err = "not_found" /\ instances' = instances /\ fs' = fs /\ mu' = mu)
       /\ (pc[p] = "idle" /\ pc'[p] = "save" /\ op'[p].kind \in {"update", "delete", "set_status"})
           => op'[p].id \in DOMAIN instances]_vars

C5_Witness ==
  \E p \in Procs :
    /\ ret[p].kind = "delete" /\ ret[p].err = "not_found"
    /\ DOMAIN instances # {} /\ ret[p].id \notin DOMAIN instances

\* C6: a create or update whose disk write fails returns an error with the
\* registry restored, so a change that is not on disk does not stay in memory.
C6_FailedWriteRollsBack ==
  \A p \in Procs :
    (pc[p] = "save" /\ op[p].kind \in {"create", "update"})
      ~> (/\ pc[p] = "idle"
          /\ ret[p].kind \in {"create", "update"} /\ ret[p].err # "nil" => Reloaded = instances)

\* C7: whatever the point at which save is interrupted, the registry file
\* holds a complete document, either the one from before or the
\* serialization of the registry being saved, and a restart loads it.
C7_FileNeverPartial ==
  /\ [](fs[filePath].exists => fs[filePath].complete)
  /\ [](store = "up")
  /\ [][fs'[filePath] # fs[filePath] =>
          (load(fs'[filePath]).err = "nil" /\ load(fs'[filePath]).instances = instances)]_vars

\* a crash while the temporary file was half written, then a restart
C7_Witness ==
  /\ pc["h1"] = "idle" /\ ret["h1"] = NoRet /\ store = "up"
  /\ fs[tmpPath].exists /\ ~fs[tmpPath].complete /\ Len(fs[tmpPath].doc) > 0

\* ====================================================== audit log claims
\* the entries a reader gets from the log as it stands
Retrievable == {readEntries(logFile)[i] : i \in DOMAIN readEntries(logFile)}

\* C8: rotation keeps the newest entries: after n appends to a log with
\* maximum M the retrievable entries are exactly the min(n, M) most recently
\* appended ones, so the entry just appended is always among them.
C8_RotationKeepsNewest ==
  (got.kind = "log" /\ got.err = "nil") =>
    LET n == Len(appended)
        kept == IF n <= maxEntries THEN n ELSE maxEntries
    IN Retrievable = {appended[i] : i \in (n - kept + 1)..n}

\* C9: after every completed append the log stores at most maxEntries
\* entries, and so recent with a limit above any count returns at most that many.
C9_AtMostMaxEntries ==
  (got.kind = "log" /\ got.err = "nil") =>
    /\ Len(logFile.lines) <= maxEntries
    /\ Len(GetEntries(logFile, <<>>, MaxAppends + 1)) <= maxEntries

\* an append that made rotation cut the file
C9_Witness ==
  /\ got.kind = "log" /\ got.err = "nil"
  /\ Len(appended) > maxEntries /\ Len(logFile.lines) = maxEntries

\* C10: with maximum at least N, N appends to an empty log followed by
\* recent(N) return all N entries, the last appended first.
C10_RecentNewestFirst ==
  (got.kind = "recent" /\ got.limit = Len(appended) /\ Len(appended) <= maxEntries) =>
    got.entries = Reverse(appended)

C10_Witness ==
  /\ got.kind = "recent" /\ got.limit = Len(appended) /\ Len(appended) <= maxEntries
  /\ Len(appended) >= 3 /\ Len(got.entries) = Len(appended)
  /\ got.entries[1] = appended[Len(appended)]

\* C11: a crash in the middle of an append loses at most the entry being
\* appended: while no more than maxEntries entries have been appended (so
\* rotation has dropped none), every entry whose append completed, before or
\* after a crash, is among the entries a reader gets.
C11_CrashLosesOnlyPartialEntry ==
  Len(appended) <= maxEntries =>
    \A i \in DOMAIN appended : appended[i] \in Retrievable

\* C37: after any sequence of appends, rotations included, recent returns
\* the retained entries ordered from the most recently appended to the least
\* recently appended (Details numbers the appends).
C37_RecentOrderAfterRotation ==
  got.kind = "recent" =>
    \A i \in DOMAIN got.entries, j \in DOMAIN got.entries :
      i < j => got.entries[i].Details > got.entries[j].Details

\* C38: recent(limit), for_instance(id, limit) and for_actor(id, limit) never
\* return more than limit entries, for every limit, 0 included; with limit at
\* least the number of matching entries they return all matching entries.
C38_LimitRespected ==
  [][(got' # got /\ got'.kind \in {"recent", "for_user", "for_instance"}) =>
       LET Matches(e) == CASE got'.kind = "recent" -> TRUE
                           [] got'.kind = "for_user" -> e.UserID = got'.arg
                           [] got'.kind = "for_instance" -> e.InstanceID = got'.arg
           matching == SelectSeq(readEntries(logFile), Matches)
       IN /\ Len(got'.entries) <= got'.limit
          /\ got'.limit >= Len(matching) => got'.entries = matching]_vars

\* C23: for_actor(actor_id, limit) returns only entries of that actor and
\* for_instance(instance_id, limit) only entries of that instance; an entry
\* of another actor, one recorded with actor id 0 included, is never returned.
C23_FiltersByEquality ==
  /\ got.kind = "for_user" =>
       \A i \in DOMAIN got.entries : got.entries[i].UserID = got.arg
  /\ got.kind = "for_instance" =>
       \A i \in DOMAIN got.entries : got.entries[i].InstanceID = got.arg

\* C24: every append gives its entry an id that no other entry appended to
\* the log has, also when both are appended at the same clock reading.
C24_AuditIdsUnique ==
  \A i \in DOMAIN appended, j \in DOMAIN appended :
    i # j => appended[i].ID # appended[j].ID

\* C25: create called with a required field missing (empty name or empty
\* endpoint) fails with Invalid, adds no descriptor and writes nothing to disk.
C25_CreateRejectsMissingField ==
  [][\A p \in Procs :
       (/\ pc[p] = "idle" /\ op'[p] # op[p]
        /\ op'[p].kind = "create" /\ op'[p].req \in InvalidRequests)
         => /\ ret'[p].kind = "create" /\ ret'[p].err = "invalid"
            /\ instances' = instances /\ fs' = fs]_vars

\* the process has just constructed its registry: no handler has been called
Fresh ==
  /\ mu = NoLock
  /\ \A p \in Procs : pc[p] = "idle" /\ op[p] = NoCall /\ ret[p] = NoRet

\* C26: registry construction on a missing file gives an empty registry and
\* no error, on a file holding a valid document exactly the descriptors of
\* the document, and on a present but corrupt file an error and no registry.
C26_ConstructionByFile ==
  Fresh =>
    LET file == fs[filePath]
    IN /\ ~file.exists => store = "up" /\ instances = <<>>
       /\ (file.exists /\ file.complete) =>
            /\ store = "up"
            /\ Values(instances) = {UnmarshalInstance(file.doc[k]) : k \in DOMAIN file.doc}
            /\ \A i \in DOMAIN instances : instances[i].ID = i
       /\ (file.exists /\ ~file.complete) => store = "failed" /\ instances = <<>>

\* construction on a corrupt file has failed
C26_Witness ==
  Fresh /\ fs[filePath].exists /\ ~fs[filePath].complete /\ store = "failed"

\* ====================================================== metrics store claims
\* C12: query_range(instance_id, start, end) never returns a snapshot whose
\* timestamp is before start or at or after end (the interval is half-open).
C12_QueryRangeHalfOpen ==
  \A p \in Procs :
    ret[p].kind = "query" =>
      \A m \in ret[p].val.found :
        ~Before(m.Timestamp, ret[p].val.start) /\ Before(m.Timestamp, ret[p].val.end)

\* C13: a successful save followed by latest for the same instance returns
\* the snapshot just saved, whatever the zone of its timestamp, provided no
\* stored snapshot of the instance has a later timestamp.
C13_SaveThenLatest ==
  [][\A p \in Procs :
       (/\ ret'[p] # ret[p] /\ ret'[p].kind = "save_metrics" /\ ret'[p].err = "nil"
        /\ \A n \in ReadDir(metricsDir', ret'[p].id) : \A m \in ret'[p].val :
             ~After(UnmarshalMetrics(metricsDir'[<<ret'[p].id, n>>]).Timestamp, m.Timestamp))
         => GetLatestIn(metricsDir', ret'[p].id) = ret'[p].val]_vars

\* the files of dir under the keys K
Restrict(dir, K) == [k \in K |-> dir[k]]
\* the files whose name parses as a timestamp
Parsable(dir) == Restrict(dir, {k \in DOMAIN dir : ParseName(k[2]).ok})

\* C29: a file in an instance's metrics directory whose name does not parse
\* as a timestamp, whatever its length, is skipped by query_range, latest and
\* prune_older_than: the call does not fail or crash and its result is the
\* one it has without the file.
C29_UnparsableNameSkipped ==
  [][\A p \in Procs :
       ret'[p] # ret[p] =>
         /\ ret'[p].kind = "query" =>
              /\ ret'[p].err = "nil"
              /\ ret'[p].val.found =
                   GetMetricsIn(Parsable(metricsDir), ret'[p].id,
                                ret'[p].val.start, ret'[p].val.end)
         /\ ret'[p].kind = "latest" =>
              /\ ret'[p].err = "nil"
              /\ ret'[p].val = GetLatestIn(Parsable(metricsDir), ret'[p].id)
         /\ ret'[p].kind = "prune" =>
              /\ ret'[p].err = "nil"
              /\ \A cutoff \in ret'[p].val :
                   Parsable(metricsDir') =
                     CleanupWalk(Parsable(metricsDir),
                                 SortedEntries(DOMAIN Parsable(metricsDir)), cutoff).dir
              /\ \A k \in DOMAIN metricsDir \ DOMAIN Parsable(metricsDir) :
                   k \in DOMAIN metricsDir' /\ metricsDir'[k] = metricsDir[k]]_vars

\* C30: prune_older_than(age) removes, for every instance, exactly the
\* snapshots whose timestamp precedes the cutoff now - age: afterwards
\* query_range and latest return no older snapshot, and every snapshot at or
\* after the cutoff is still stored and returned unchanged (in a directory
\* that holds only files the store has written).
C30_PruneRemovesExactlyOlder ==
  [][\A p \in Procs :
       (/\ ret'[p] # ret[p] /\ ret'[p].kind = "prune"
        /\ \A k \in DOMAIN metricsDir : IsStamp(k[2])) =>
         \A cutoff \in ret'[p].val :
           /\ ret'[p].err = "nil"
           /\ DOMAIN metricsDir' =
                {k \in DOMAIN metricsDir :
                   ~Before(UnmarshalMetrics(metricsDir[k]).Timestamp, cutoff)}
           /\ \A k \in DOMAIN metricsDir' : metricsDir'[k] = metricsDir[k]
           /\ \A id \in MetricIds :
                /\ \A m \in GetLatestIn(metricsDir', id) : ~Before(m.Timestamp, cutoff)
                /\ \A start \in Instants, end \in Instants :
                     GetMetricsIn(metricsDir', id, start, end) =
                       {m \in GetMetricsIn(metricsDir, id, start, end) :
                          ~Before(m.Timestamp, cutoff)}]_vars

\* the snapshot stored under a key
Stored(dir, k) == UnmarshalMetrics(dir[k])

\* C31: the metrics store holds at most one snapshot per instance and per
\* second of capture time: a save replaces the snapshot of the same instance
\* and second, and leaves the snapshots of other seconds and of other
\* instances unchanged.
C31_OneSnapshotPerSecond ==
  [][\A p \in Procs :
       (ret'[p] # ret[p] /\ ret'[p].kind = "save_metrics" /\ ret'[p].err = "nil") =>
         \A m \in ret'[p].val :
           /\ \A k \in DOMAIN metricsDir' :
                (k[1] = m.InstanceID /\ Stored(metricsDir', k).Timestamp.sec = m.Timestamp.sec)
                  => Stored(metricsDir', k) = m
           /\ \E k \in DOMAIN metricsDir' : Stored(metricsDir', k) = m
           /\ \A k \in DOMAIN metricsDir :
                (k[1] # m.InstanceID \/ Stored(metricsDir, k).Timestamp.sec # m.Timestamp.sec)
                  => k \in DOMAIN metricsDir' /\ metricsDir'[k] = metricsDir[k]
           /\ \A k1 \in DOMAIN metricsDir', k2 \in DOMAIN metricsDir' :
                (/\ k1[1] = k2[1]
                 /\ Stored(metricsDir', k1).Timestamp.sec = Stored(metricsDir', k2).Timestamp.sec)
                  => k1 = k2]_vars

\* a second save in the same second has replaced the snapshot of the first,
\* next to a snapshot of another second
C31_Witness ==
  \E p \in Procs :
    /\ ret[p].kind = "save_metrics" /\ ret[p].err = "nil"
    /\ \E m \in ret[p].val :
         /\ m.NumRequests = 43 /\ m.Timestamp.frac = 1 /\ m.Timestamp.sec = now
         /\ Cardinality({k \in DOMAIN metricsDir : k[1] = m.InstanceID}) = 2
         /\ \E k \in DOMAIN metricsDir : Stored(metricsDir, k) = m

\* ====================================================== registry claims, continued
\* C34: a status refresh (set_status) changes only status and last_checked_at
\* of the descriptor: id, name, endpoint, credential_ref, tags, created_at and
\* updated_at keep their values, and every other descriptor is unchanged.
C34_SetStatusFrame ==
  [][\A p \in Procs :
       (pc[p] = "idle" /\ pc'[p] = "save" /\ op'[p].kind = "set_status") =>
         /\ DOMAIN instances' = DOMAIN instances
         /\ \A i \in DOMAIN instances :
              IF i = op'[p].id
              THEN /\ instances'[i].ID = instances[i].ID
                   /\ instances'[i].Name = instances[i].Name
                   /\ instances'[i].URL = instances[i].URL
                   /\ instances'[i].APIKeyFile = instances[i].APIKeyFile
                   /\ instances'[i].Tags = instances[i].Tags
                   /\ instances'[i].CreatedAt = instances[i].CreatedAt
                   /\ instances'[i].UpdatedAt = instances[i].UpdatedAt
              ELSE instances'[i] = instances[i]]_vars

\* C35: whenever no registry mutation is in progress the descriptors of the
\* on-disk document equal the descriptors in memory: every create, update,
\* delete and set_status comes to an end, with or without an error, and at
\* rest a restart would load exactly what list returns.
C35_DiskEqualsMemoryAtRest ==
  /\ []((\A p \in Procs : pc[p] = "idle") => Reloaded = instances)
  /\ \A p \in Procs :
       (pc[p] = "save" /\ op[p].kind \in Mutations)
         ~> (\A q \in Procs : pc[q] = "idle" => Reloaded = instances) /\ pc[p] = "idle"

\* C36: a descriptor returned by get or list is a version that later
\* mutations do not change: the fields a caller reads from it (test_connection
\* building its client) are those of the version it was given, never those of
\* a later update nor a mix of two versions.
C36_HeldDescriptorStable ==
  /\ \A p \in Procs :
       pc[p] \in {"get_api_key", "new_client"} => instances[op[p].id] = buf[p][1]
  /\ \A p \in Procs :
       ret[p].kind = "new_client" =>
         \A c \in ret[p].val : c.APIKeyFile = c.got.APIKeyFile /\ c.baseURL = c.got.URL

\* ====================================================== client claims
\* the servers of a fetched configuration when apps.http.servers is an object
\* whose entries are all objects, else no servers
WellFormedServers(body) ==
  IF /\ body.kind = "object" /\ IsMap(body.val, "apps")
     /\ IsMap(body.val["apps"].val, "http")
     /\ IsMap(body.val["apps"].val["http"].val, "servers")
     /\ \A name \in DOMAIN body.val["apps"].val["http"].val["servers"].val :
          body.val["apps"].val["http"].val["servers"].val[name].kind = "object"
  THEN body.val["apps"].val["http"].val["servers"].val
  ELSE NoFields

\* C32: list_sites returns an empty list without error whenever the fetched
\* configuration lacks apps.http.servers or holds it in an unexpected shape
\* (a server entry that is not an object), and for a well-formed structure
\* one site per server name with that server's listen addresses.
C32_ListSitesTolerant ==
  \A p \in Procs :
    (ret[p].kind = "GetSites" /\ ret[p].val.resp \in {Response(StatusOK, c) : c \in Configs}) =>
      LET servers == WellFormedServers(ret[p].val.resp.body)
      IN /\ ret[p].err = NoError
         /\ {site.Name : site \in ret[p].val.sites} = DOMAIN servers
         /\ Cardinality(ret[p].val.sites) = Cardinality(DOMAIN servers)
         /\ \A site \in ret[p].val.sites :
              LET srv == servers[site.Name].val
              IN /\ IsMap(srv, "listen") => site.Listen = <<>>
                 /\ ("listen" \in DOMAIN srv /\ srv["listen"].kind = "array") =>
                      /\ Len(site.Listen) = Len(srv["listen"].val)
                      /\ \A i \in DOMAIN site.Listen :
                           srv["listen"].val[i].kind = "string" =>
                             site.Listen[i] = srv["listen"].val[i].val

\* C33: every remote call treats every 2xx response as success and every
\* non-2xx response as an error whose message carries the response body
\* unchanged; a network-level failure gives another error than any response.
C33_RemoteCallOutcomes ==
  \A p \in Procs :
    ret[p].kind \in Methods =>
      \A resp \in ret[p].val :
        /\ (~resp.net /\ resp.status \in 200..299) => ret[p].err = NoError
        /\ (~resp.net /\ resp.status \notin 200..299) =>
             ret[p].err # NoError /\ ret[p].err[2] = resp.body
        /\ resp.net =>
             /\ ret[p].err # NoError
             /\ \A other \in Responses :
                  ~other.net => Request(ret[p].kind, other) # ret[p].err

\* C39: a latest or query_range that runs while a save for the same instance
\* is under way does not fail, and returns each snapshot either as it was
\* saved or not at all.
C39_ReadersSeeWholeSnapshots ==
  [][\A p \in Procs :
       (ret'[p] # ret[p] /\ ret'[p].kind \in {"latest", "query"}) =>
         /\ ret'[p].err = "nil"
         /\ \A m \in (IF ret'[p].kind = "latest" THEN ret'[p].val ELSE ret'[p].val.found) :
              m \in Snapshots(ret'[p].id)]_vars

\* ====================================================== parser claims
\* C21: for a text with the line
\* caddy_http_requests_total{code="200",host="a.com"} 42 the parser records 42
\* under the code label 200 and under the host label a.com, and the status
\* codes collect_metrics puts in the snapshot map 200 to 42.
C21_LabelledTotalRecorded ==
  \A m \in parsed :
    (\E i \in DOMAIN metricsText : metricsText[i] = LabelledLine) =>
      /\ <<"200">> \in DOMAIN m.RequestsByCode /\ m.RequestsByCode[<<"200">>] = 42
      /\ <<"a.com">> \in DOMAIN m.RequestsByHost /\ m.RequestsByHost[<<"a.com">>] = 42
      /\ 200 \in DOMAIN StatusCodesOf(m) /\ StatusCodesOf(m)[200] = 42

\* a line that is neither empty nor a comment and has no space between name
\* and value, or a value that is not a number
Malformed(line) ==
  /\ Len(TrimSpace(line)) > 0 /\ TrimSpace(line)[1] # "#"
  /\ \/ Len(SplitN(TrimSpace(line))) # 2
     \/ SplitN(TrimSpace(line))[2] \notin {<<n>> : n \in Numerals}
\* text with line put in after its first k lines
InsertLine(text, k, line) ==
  SubSeq(text, 1, k) \o <<line>> \o SubSeq(text, k + 1, Len(text))

\* C22: the parser never fails, and a malformed line is skipped without
\* effect: a text with such a line inserted at any position parses to the
\* same output as the text without it.
C22_MalformedLineSkipped ==
  \A m \in parsed :
    \A line \in {l \in MetricLines : Malformed(l)}, k \in 0..Len(metricsText) :
      ParsePrometheusMetrics(InsertLine(metricsText, k, line)) = m

\* ====================================================== fleet service claims
\* the step in which TestConnection or RefreshStatus has UpdateStatus set a status
SetsStatus(p) == pc[p] \in Pinged \cup {"no_client"} /\ pc'[p] = "save"

\* C14: test_connection on a registered instance sets the status to online
\* when the ping succeeds and to offline when the endpoint is unreachable;
\* when the ping fails in another way (the remote answered with a failure
\* status) or the credential file is unreadable, the status stays as it was.
C14_TestConnectionOutcomes ==
  [][\A p \in Procs :
       /\ (SetsStatus(p) /\ op[p].kind = "test_connection") =>
            instances'[op[p].id].Status =
              CASE pc[p] = "pinged_ok" -> StatusOnline
                [] pc[p] = "pinged_unreachable" -> StatusOffline
                [] OTHER -> instances[op[p].id].Status
       /\ (ret'[p] # ret[p] /\ ret'[p].kind = "test_connection"
              /\ ret'[p].err = "credential") => instances' = instances]_vars

\* C15: test_connection on an instance with status unknown whose endpoint
\* turns out unreachable comes to an end, with the status offline and
\* without an error for the caller.
C15_UnreachableSetsOffline ==
  \A p \in Procs :
    (/\ pc[p] = "pinged_unreachable" /\ op[p].kind = "test_connection"
     /\ op[p].id \in DOMAIN instances /\ instances[op[p].id].Status = StatusUnknown)
      ~> (/\ pc[p] = "idle"
          /\ ret[p].kind = "test_connection" =>
               /\ ret[p].err = "nil"
               /\ ret[p].id \in DOMAIN instances
               /\ instances[ret[p].id].Status = StatusOffline)

\* C16: refresh_status never returns an error to its caller, and when the
\* client cannot be constructed it sets the status to unknown.
C16_RefreshNeverFails ==
  /\ [](\A p \in Procs : ret[p].kind = "refresh_status" => ret[p].err = "nil")
  /\ [][\A p \in Procs :
          (pc[p] = "no_client" /\ pc'[p] = "save") =>
            instances'[op[p].id].Status = StatusUnknown]_vars

\* a step of the running process (it is not killed and started again)
NoRestart == \A p \in Procs : pc[p] = "save" => pc'[p] = "save"
\* instance i has status from before and status to after the step
Transition(i, from, to) ==
  /\ i \in DOMAIN instances /\ i \in DOMAIN instances'
  /\ instances[i].Status = from /\ instances'[i].Status = to /\ from # to

Refreshed(i) ==
  \E p \in Procs : pc[p] = "idle" /\ ret[p].kind = "refresh_status" /\ ret[p].id = i

\* C27: refresh_all returns without waiting for a ping or a registry write
\* and starts one refresh for each instance registered at the call; every
\* refresh started runs to its end whatever happens in the others.
C27_RefreshAllIndependent ==
  /\ [][\A p \in Procs :
          (ret'[p] # ret[p] /\ ret'[p].kind = "refresh_all") =>
            /\ pc'[p] = "idle" /\ instances' = instances
            /\ bg' = bg \cup DOMAIN instances]_vars
  /\ \A i \in Ids : (i \in bg) ~> Refreshed(i)

\* C28: health_check on a registered instance returns no error when the ping
\* fails or the client cannot be built: it reports the instance as not
\* healthy with the text of the underlying error; only an unknown instance
\* id is an error.
C28_HealthCheckReports ==
  [][\A p \in Procs :
       (ret'[p] # ret[p] /\ ret'[p].kind = "health_check") =>
         IF ret'[p].id \in DOMAIN instances
         THEN /\ ret'[p].err = "nil"
              /\ \A h \in ret'[p].val :
                   h.healthy <=> h.message[2] \notin {"credential", "unreachable", "status"}
              /\ ret'[p].val # {}
         ELSE ret'[p].err = "not_found" /\ ret'[p].val = {}]_vars

\* a health check of a registered instance whose endpoint is unreachable
C28_Witness ==
  \E p \in Procs :
    /\ ret[p].kind = "health_check" /\ ret[p].err = "nil" /\ ret[p].id \in DOMAIN instances
    /\ ret[p].val = {Health(FALSE, "Ping failed", "unreachable")}

\* C18: the set of registered ids changes only by a create or a delete;
\* test_connection, refresh_status, refresh_all, collect_metrics and
\* health_check never add or remove an instance (one found offline stays
\* registered), and a delete leaves the stored metrics snapshots as they are.
C18_IdsChangeOnlyByCreateDelete ==
  [][/\ (NoRestart /\ DOMAIN instances' # DOMAIN instances) =>
          \E p \in Procs : /\ pc[p] = "idle" /\ pc'[p] = "save"
                           /\ op'[p].kind \in {"create", "delete"}
     /\ \A p \in Procs :
          (pc[p] = "idle" /\ pc'[p] = "save" /\ op'[p].kind = "delete") =>
            metricsDir' = metricsDir]_vars

\* a delete of an instance that has snapshots stored, and they are still there
C18_Witness ==
  \E p \in Procs :
    /\ pc[p] = "save" /\ op[p].kind = "delete" /\ op[p].id \notin DOMAIN instances
    /\ ReadDir(metricsDir, op[p].id) # {}

\* C40: a test_connection or refresh_status (called, or started by refresh_all)
\* whose ping is answered after its instance was deleted comes to an end
\* without bringing the instance back: its last step changes no descriptor and
\* not the file, and once it has returned neither the registry nor the
\* on-disk document holds that id.
C40_LateRefreshLeavesDeleted ==
  /\ [][\A p \in Procs :
          (/\ pc[p] \in Pinged /\ op[p].id \notin DOMAIN instances
           /\ pc'[p] = "idle" /\ NoRestart) =>
            instances' = instances /\ fs' = fs]_vars
  /\ \A p \in Procs :
       (pc[p] \in {"ping"} \cup Pinged /\ op[p].id \notin DOMAIN instances)
         ~> (/\ pc[p] = "idle"
             /\ ret[p].kind \in {"test_connection", "refresh_status"} =>
                  /\ ret[p].id \notin DOMAIN instances
                  /\ ret[p].id \notin DOMAIN Reloaded)

\* C19: when collect_metrics returns a snapshot and no error, that snapshot
\* is stored in the metrics store (a failure to store it makes
\* collect_metrics fail).
C19_CollectedIsPersisted ==
  [][\A p \in Procs :
       (ret'[p] # ret[p] /\ ret'[p].kind = "collect_metrics" /\ ret'[p].err = "nil") =>
         \A m \in ret'[p].val :
           /\ <<m.InstanceID, FileName(m.Timestamp)>> \in DOMAIN metricsDir'
           /\ UnmarshalMetrics(metricsDir'[<<m.InstanceID, FileName(m.Timestamp)>>]) = m]_vars

\* C20: when collect_metrics fails (unknown instance, unreadable credential
\* file, failed fetch) it returns an error and no snapshot, writes nothing
\* to the metrics store and leaves the registry unchanged.
C20_FailedCollectWritesNothing ==
  [][\A p \in Procs :
       (ret'[p] # ret[p] /\ ret'[p].kind = "collect_metrics" /\ ret'[p].err # "nil") =>
         /\ ret'[p].val = {}
         /\ metricsDir' = metricsDir
         /\ instances' = instances /\ fs' = fs]_vars

\* the fetch from a registered instance has failed
C20_Witness ==
  \E p \in Procs :
    /\ ret[p].kind = "collect_metrics" /\ ret[p].err = "unreachable"
    /\ ret[p].id \in DOMAIN instances

====
